---- MODULE Spec2Model ----
(***************************************************************************)
(* Verification model of the papilio_hdmi library:                         *)
(*   - the Wishbone-over-SPI register transport of HDMIController          *)
(*   - the HQVGA_TFT framebuffer engine (local mirror + device image)      *)
(***************************************************************************)
EXTENDS Integers, Sequences, FiniteSets, TLC

VARIABLES
    _spi,        \* HDMIController::_spi: "NULL" or "SPI"
    _ownSpi,     \* HDMIController::_ownSpi
    csPin,       \* level last written to pin _cs: "Z" (never driven), "LOW", "HIGH"
    csOutput,    \* pinMode(_cs, OUTPUT) has been executed
    spiMode,     \* clock mode of the SPISettings in effect (-1: none yet)
    locked,      \* the callers serialize their calls (single logical owner)
    ctx,         \* per calling context: the call in progress and its position
    frame,       \* bytes on the wire since device-select last went low
    frameBy,     \* context that asserted device-select (0: not asserted)
    lastFrame,   \* the frame closed by the last rising edge of device-select
    lastTx,      \* the register transaction that returned last in this call,
                 \* with the value it returned and the frame it left
    result,      \* value returned by the last completed public call
    corrupt,     \* some frame was overlapped, cut or re-clocked by another
    frameBuffer, \* HQVGA_TFT::frameBuffer, the local mirror
    device,      \* the picture held by the device
    _vga,        \* HQVGA_TFT::_vga: "NULL" or "VGA"
    _ownsVga,    \* HQVGA_TFT::_ownsVga
    _buffered,   \* HQVGA_TFT::_buffered
    _textColor, _textBgColor, _textSize, _cursorX, _cursorY, _wrap,
    fault,       \* a drawing call dereferenced the null _vga
    lastOp,      \* the last drawing, text or sync call and its arguments
    log,         \* the stores and device writes that call made, in order
    nOps,        \* number of such calls so far
    conv,        \* a colour conversion: the converter, its input, its result
    _hdmi,       \* HDMILiquidCrystal::_hdmi: "NULL" or "HDMI"
    _cols, _rows, _displayOffsetX, _displayOffsetY, _cursorCol, _cursorRow,
    _displayOn, _cursorOn, _blinkOn, _leftToRight, _autoscroll,
    begun,       \* HDMILiquidCrystal::begin has been called
    cursorReg,   \* the cursor-position pair of the device
    lcdOp,       \* the last text call, its arguments and the fields it found
    lcdLog,      \* the register transactions of that call at the device
    grid,        \* the VGALiquidCrystal object
    gridOp,      \* the last call on it, its arguments and the object it found
    run,         \* writes made in a row from address 0 with increment +1
    trip,        \* the viewports found by the scrollDisplayLeft calls in a row
    screen,      \* the character putcharat drew last at each screen position,
                 \* in the specifications that watch the screen
    charDev,     \* the character RAM of the device and its address/data port
    shiftOp      \* the last software scroll and the RAM it found

busVars == <<_spi, _ownSpi, csPin, csOutput, spiMode, locked, ctx,
             frame, frameBy, lastFrame, lastTx, result, corrupt>>

textVars == <<_textColor, _textBgColor, _textSize, _cursorX, _cursorY>>

fbVars == <<frameBuffer, device, _vga, _ownsVga, _buffered, textVars, _wrap,
            fault, lastOp, log, nOps>>

lcdFields == <<_hdmi, _cols, _rows, _displayOffsetX, _displayOffsetY,
               _cursorCol, _cursorRow, _displayOn, _cursorOn, _blinkOn,
               _leftToRight, _autoscroll>>

lcdVars == <<lcdFields, begun, cursorReg, lcdOp, lcdLog>>

gridVars == <<grid, gridOp, run, trip, screen>>

ramVars == <<charDev, shiftOp>>

vars == <<busVars, fbVars, conv, lcdVars, gridVars, ramVars>>

\* what the actions of one part leave alone
exceptBus == <<fbVars, conv, lcdVars, gridVars, ramVars>>
exceptFB == <<busVars, conv, lcdVars, gridVars, ramVars>>
exceptConv == <<busVars, fbVars, lcdVars, gridVars, ramVars>>
exceptLCD == <<busVars, fbVars, conv, gridVars, ramVars>>
exceptGrid == <<busVars, fbVars, conv, lcdVars, ramVars>>
exceptRam == <<busVars, fbVars, conv, lcdVars, gridVars>>

(***************************************************************************)
(* Protocol and register constants (HDMIController.h)                      *)
(***************************************************************************)
CMD_WRITE == 1
CMD_READ == 2

\* 0x8100 .. 0x8103
REG_LED_GREEN == 33024
REG_LED_RED == 33025
REG_LED_BLUE == 33026
REG_LED_CTRL == 33027
\* 0x0000
REG_VIDEO_MODE == 0
\* 0x0010, 0x0011
REG_VIDEO_PATTERN == 16
REG_VIDEO_STATUS == 17
\* 0x0020 .. 0x002B
REG_CHARRAM_CONTROL == 32
REG_CHARRAM_CURSOR_X == 33
REG_CHARRAM_CURSOR_Y == 34
REG_CHARRAM_ATTR == 35
REG_CHARRAM_CHAR == 36
REG_CHARRAM_ATTR_WR == 37
REG_CHARRAM_ADDR_HI == 38
REG_CHARRAM_ADDR_LO == 39
REG_CHARRAM_DATA_WR == 40
REG_CHARRAM_ATTR_DATA == 41
REG_CHARRAM_FONT_ADDR == 42
REG_CHARRAM_FONT_DATA == 43
\* 0x0100
FB_BASE_ADDR == 256
FB_WIDTH == 160
FB_HEIGHT == 120

PATTERN_COLOR_BARS == 0
PATTERN_TEXT_MODE == 3

\* Arduino SPI clock modes named in the SPISettings of each transaction
SPI_MODE0 == 0
SPI_MODE1 == 1

(***************************************************************************)
(* Fixed-width helpers                                                     *)
(***************************************************************************)
Pow2(n) == IF n = 0 THEN 1 ELSE IF n = 8 THEN 256 ELSE IF n = 16 THEN 65536
           ELSE 16777216

\* (v >> n) & 0xFF for an unsigned v
ByteAt(v, n) == (v \div Pow2(n)) % 256

(***************************************************************************)
(* Micro-operations of a transaction, in program order                     *)
(***************************************************************************)
beginTransaction(mode) ==
    [op |-> "beginTransaction", mode |-> mode, level |-> "", out |-> 0, sh |-> -1]
endTransaction ==
    [op |-> "endTransaction", mode |-> -1, level |-> "", out |-> 0, sh |-> -1]
digitalWrite(level) ==
    [op |-> "digitalWrite", mode |-> -1, level |-> level, out |-> 0, sh |-> -1]
\* _spi->transfer(out), the returned byte dropped
transfer(out) ==
    [op |-> "transfer", mode |-> -1, level |-> "", out |-> out, sh |-> -1]
\* data |= (uint32_t)_spi->transfer(out) << sh
capture(out, sh) ==
    [op |-> "transfer", mode |-> -1, level |-> "", out |-> out, sh |-> sh]

\* wishboneWrite8 with device-select released before the data byte
wishboneWrite8_EarlyRelease(address, data) ==
    IF _spi = "NULL" THEN <<>>
    ELSE << beginTransaction(SPI_MODE0),
            digitalWrite("LOW"),
            transfer(CMD_WRITE),
            transfer(ByteAt(address, 0)),
            digitalWrite("HIGH"),
            transfer(data),
            endTransaction >>

\* wishboneWrite8 that never releases device-select
wishboneWrite8_NoRelease(address, data) ==
    IF _spi = "NULL" THEN <<>>
    ELSE << beginTransaction(SPI_MODE0),
            digitalWrite("LOW"),
            transfer(CMD_WRITE),
            transfer(ByteAt(address, 0)),
            transfer(data),
            endTransaction >>

wishboneWrite8(address, data) ==
    IF _spi = "NULL" THEN <<>>
    ELSE << beginTransaction(SPI_MODE0),
            digitalWrite("LOW"),
            transfer(CMD_WRITE),
            transfer(ByteAt(address, 0)),
            transfer(data),
            digitalWrite("HIGH"),
            endTransaction >>

\* wishboneRead8 without the null-handle guard
wishboneRead8_NoGuard(address) ==
    << beginTransaction(SPI_MODE1),
       digitalWrite("LOW"),
       transfer(CMD_READ),
       transfer(ByteAt(address, 0)),
       transfer(ByteAt(address, 8)),
       capture(0, 0),
       digitalWrite("HIGH"),
       endTransaction >>

wishboneRead8(address) ==
    IF _spi = "NULL" THEN <<>>
    ELSE << beginTransaction(SPI_MODE1),
            digitalWrite("LOW"),
            transfer(CMD_READ),
            transfer(ByteAt(address, 0)),
            transfer(ByteAt(address, 8)),
            capture(0, 0),
            digitalWrite("HIGH"),
            endTransaction >>

wishboneWrite(address, data) ==
    IF _spi = "NULL" THEN <<>>
    ELSE << beginTransaction(SPI_MODE1),
            digitalWrite("LOW"),
            transfer(CMD_WRITE),
            transfer(ByteAt(address, 24)),
            transfer(ByteAt(address, 16)),
            transfer(ByteAt(address, 8)),
            transfer(ByteAt(address, 0)),
            transfer(ByteAt(data, 24)),
            transfer(ByteAt(data, 16)),
            transfer(ByteAt(data, 8)),
            transfer(ByteAt(data, 0)),
            digitalWrite("HIGH"),
            endTransaction >>

wishboneRead(address) ==
    IF _spi = "NULL" THEN <<>>
    ELSE << beginTransaction(SPI_MODE1),
            digitalWrite("LOW"),
            transfer(CMD_READ),
            transfer(ByteAt(address, 24)),
            transfer(ByteAt(address, 16)),
            transfer(ByteAt(address, 8)),
            transfer(ByteAt(address, 0)),
            capture(0, 24),
            capture(0, 16),
            capture(0, 8),
            capture(0, 0),
            digitalWrite("HIGH"),
            endTransaction >>

\* A pending register transaction and the program it runs
W8(address, data) == [kind |-> "W8", address |-> address, data |-> data]
R8(address) == [kind |-> "R8", address |-> address, data |-> 0]
W32(address, data) == [kind |-> "W32", address |-> address, data |-> data]
R32(address) == [kind |-> "R32", address |-> address, data |-> 0]
NoTx == [kind |-> "none", address |-> 0, data |-> 0]

Prog(tx) ==
    CASE tx.kind = "W8" -> wishboneWrite8(tx.address, tx.data)
      [] tx.kind = "R8" -> wishboneRead8(tx.address)
      [] tx.kind = "W32" -> wishboneWrite(tx.address, tx.data)
      [] tx.kind = "R32" -> wishboneRead(tx.address)
      [] OTHER -> <<>>

(***************************************************************************)
(* Public operations as the register transactions they issue               *)
(***************************************************************************)
setVideoPattern(pattern) == << W8(REG_VIDEO_PATTERN, pattern) >>

setLEDColor(color) ==
    << W8(REG_LED_GREEN, ByteAt(color, 16)),
       W8(REG_LED_RED, ByteAt(color, 8)),
       W8(REG_LED_BLUE, ByteAt(color, 0)) >>

setLEDColorRGB(red, green, blue) ==
    setLEDColor(green * 65536 + red * 256 + blue)

setCursor(x, y) ==
    IF x < 80 /\ y < 30
    THEN << W8(REG_CHARRAM_CURSOR_X, x), W8(REG_CHARRAM_CURSOR_Y, y) >>
    ELSE <<>>

clearScreen == << W8(REG_CHARRAM_CONTROL, 1) >> \o setCursor(0, 0)

setTextColor(foreground, background) ==
    << W8(REG_CHARRAM_ATTR, (background % 16) * 16 + (foreground % 16)) >>

\* writeChar up to its first data dependency: the transactions to issue and
\* what is to be done with the value read
writeChar(c) ==
    IF c = 10 THEN [todo |-> << R8(REG_CHARRAM_CURSOR_Y) >>, cont |-> "newline"]
    ELSE IF c = 13 THEN [todo |-> << R8(REG_CHARRAM_CURSOR_Y) >>, cont |-> "return"]
    ELSE IF c >= 32 /\ c <= 126 THEN [todo |-> << W8(REG_CHARRAM_CHAR, c) >>, cont |-> "none"]
    ELSE [todo |-> <<>>, cont |-> "none"]

\* the rest of writeChar once y has been read
writeCharCont(cont, y) ==
    IF cont = "newline"
    THEN (IF y < 29 THEN setCursor(0, y + 1) ELSE setCursor(0, 0))
    ELSE setCursor(0, y)

NoCall == [name |-> "none", a |-> 0, b |-> 0, c |-> 0, s |-> <<>>]

\* transactions a call issues before any character is written
FirstTodo(call) ==
    CASE call.name = "wishboneWrite8" -> << W8(call.a, call.b) >>
      [] call.name = "wishboneRead8" -> << R8(call.a) >>
      [] call.name = "wishboneWrite" -> << W32(call.a, call.b) >>
      [] call.name = "wishboneRead" -> << R32(call.a) >>
      [] call.name = "setLEDColor" -> setLEDColor(call.a)
      [] call.name = "setLEDColorRGB" -> setLEDColorRGB(call.a, call.b, call.c)
      [] call.name = "isLEDBusy" -> << R8(REG_LED_CTRL) >>
      [] call.name = "setVideoPattern" -> setVideoPattern(call.a)
      [] call.name = "getVideoPattern" -> << R8(REG_VIDEO_PATTERN) >>
      [] call.name = "getVideoStatus" -> << R8(REG_VIDEO_STATUS) >>
      [] call.name = "enableTextMode" -> setVideoPattern(PATTERN_TEXT_MODE)
      [] call.name = "disableTextMode" -> setVideoPattern(PATTERN_COLOR_BARS)
      [] call.name = "clearScreen" -> clearScreen
      [] call.name = "setCursor" -> setCursor(call.a, call.b)
      [] call.name = "setTextColor" -> setTextColor(call.a, call.b)
      [] call.name = "getCursorX" -> << R8(REG_CHARRAM_CURSOR_X) >>
      [] call.name = "getCursorY" -> << R8(REG_CHARRAM_CURSOR_Y) >>
      [] OTHER -> <<>>

\* value a call returns, given the value of its last register read
RetVal(call, data) ==
    CASE call.name = "isLEDBusy" -> IF data % 2 # 0 THEN 1 ELSE 0
      [] call.name \in {"wishboneRead8", "wishboneRead", "getVideoPattern",
                        "getVideoStatus", "getCursorX", "getCursorY"} -> data
      [] OTHER -> 0

\* characters a call hands to writeChar, in order
FirstStr(call) ==
    CASE call.name = "writeChar" -> << call.a >>
      [] call.name \in {"writeString", "print"} -> call.s
      [] call.name = "println" -> call.s \o << 10 >>
      [] OTHER -> <<>>

(***************************************************************************)
(* Calling contexts                                                        *)
(***************************************************************************)
Ctx == {1, 2}

Idle == [call |-> NoCall, str |-> <<>>, todo |-> <<>>, cont |-> "none",
         tx |-> NoTx, pc |-> 0, data |-> 0]

NoResult == [name |-> "none", val |-> 0]
NoLast == [tx |-> NoTx, data |-> 0, by |-> 0, ran |-> FALSE, frame |-> <<>>]

\* bytes the device may answer on MISO (kept below 128 so that a 32-bit
\* result stays within the checker's integers)
Miso == {0, 29, 101}

Call0(name) == [name |-> name, a |-> 0, b |-> 0, c |-> 0, s |-> <<>>]
Call1(name, a) == [name |-> name, a |-> a, b |-> 0, c |-> 0, s |-> <<>>]
Call2(name, a, b) == [name |-> name, a |-> a, b |-> b, c |-> 0, s |-> <<>>]
Call3(name, a, b, c) == [name |-> name, a |-> a, b |-> b, c |-> c, s |-> <<>>]
CallS(name, s) == [name |-> name, a |-> 0, b |-> 0, c |-> 0, s |-> s]

\* 0x01020304, 0x71B2C3D4, 0x112233
RawCalls ==
    { Call2("wishboneWrite8", REG_VIDEO_PATTERN, 165),
      Call1("wishboneRead8", REG_CHARRAM_CURSOR_Y),
      Call2("wishboneWrite", 16909060, 1907540948) }

AllCalls ==
    RawCalls
    \cup { Call2("wishboneWrite8", a, d) :
             a \in {REG_LED_GREEN, REG_VIDEO_MODE, REG_CHARRAM_CHAR}, d \in {0, 165} }
    \cup { Call1("wishboneRead8", REG_LED_CTRL),
           Call1("wishboneRead", 16909060),
           Call1("writeChar", 10),
           CallS("print", << 65 >>),
           Call2("wishboneWrite", REG_LED_GREEN, 0),
           Call1("wishboneRead", REG_LED_CTRL),
           Call1("setLEDColor", 1122867),
           Call3("setLEDColorRGB", 34, 17, 51),
           Call0("isLEDBusy"),
           Call1("setVideoPattern", 1),
           Call0("getVideoPattern"),
           Call0("getVideoStatus"),
           Call0("enableTextMode"),
           Call0("disableTextMode"),
           Call0("clearScreen"),
           Call2("setCursor", 0, 0),
           Call2("setCursor", 79, 29),
           Call2("setCursor", 80, 0),
           Call2("setCursor", 0, 30),
           Call2("setTextColor", 15, 1),
           Call2("setTextColor", 31, 244),
           Call1("writeChar", 13),
           Call1("writeChar", 65),
           Call1("writeChar", 31),
           Call1("writeChar", 127),
           CallS("writeString", << 65, 10 >>),
           CallS("println", << 66 >>),
           CallS("print", <<>>),
           Call0("getCursorX"),
           Call0("getCursorY") }

\* calls enumerated: every public call when the callers take turns, three raw
\* transactions when they do not
Calls == IF locked THEN AllCalls ELSE RawCalls

(***************************************************************************)
(* Initial state: after the constructor                                    *)
(***************************************************************************)
InitBus(lk) ==
    /\ _spi \in {"NULL", "SPI"}
    /\ _ownSpi = (_spi = "NULL")
    /\ csPin = "Z"
    /\ csOutput = FALSE
    /\ spiMode = -1
    /\ locked \in lk
    /\ ctx = [c \in Ctx |-> Idle]
    /\ frame = <<>>
    /\ frameBy = 0
    /\ lastFrame = <<>>
    /\ lastTx = NoLast
    /\ result = NoResult
    /\ corrupt = FALSE

OthersIdle(c) == \A d \in Ctx \ {c} : ctx[d] = Idle

(***************************************************************************)
(* Observation of the bus.  A step of context c interferes when it acts    *)
(* inside the device-select window of another context; from then on the    *)
(* bus is corrupt and the frame and result logs are no longer kept.        *)
(***************************************************************************)
Interferes(c) == frameBy \notin {0, c}
Kept(cr, v, none) == IF cr THEN none ELSE v

(***************************************************************************)
(* HDMIController::begin                                                   *)
(***************************************************************************)
begin(c) ==
    /\ ctx[c] = Idle
    /\ locked => OthersIdle(c)
    /\ _spi' = IF _spi = "NULL" /\ _ownSpi THEN "SPI" ELSE _spi
    /\ csOutput' = TRUE
    /\ csPin' = "HIGH"
    /\ corrupt' = (corrupt \/ Interferes(c))
    /\ lastFrame' = Kept(corrupt', IF csPin = "LOW" THEN frame ELSE lastFrame, <<>>)
    /\ lastTx' = Kept(corrupt', lastTx, NoLast)
    /\ result' = Kept(corrupt', result, NoResult)
    /\ frame' = <<>>
    /\ frameBy' = 0
    /\ UNCHANGED <<_ownSpi, spiMode, locked, ctx>>

(***************************************************************************)
(* A context enters a public call                                          *)
(***************************************************************************)
Call(c, call) ==
    /\ ctx[c] = Idle
    /\ locked => OthersIdle(c)
    /\ ctx' = [ctx EXCEPT ![c] = [Idle EXCEPT !.call = call,
                                              !.str = FirstStr(call),
                                              !.todo = FirstTodo(call)]]
    /\ lastTx' = NoLast
    /\ lastFrame' = <<>>
    /\ result' = NoResult
    /\ UNCHANGED <<_spi, _ownSpi, csPin, csOutput, spiMode, locked, frame,
                   frameBy, corrupt>>

\* The next register transaction of the call is entered; with no transport
\* handle it returns at once with data 0
TxStart(c) ==
    /\ ctx[c].call # NoCall
    /\ ctx[c].tx = NoTx
    /\ ctx[c].todo # <<>>
    /\ LET tx == Head(ctx[c].todo) IN
         IF Prog(tx) = <<>>
         THEN /\ ctx' = [ctx EXCEPT ![c].todo = Tail(@), ![c].data = 0]
              /\ lastTx' = Kept(corrupt, [tx |-> tx, data |-> 0, by |-> c, ran |-> FALSE, frame |-> <<>>], NoLast)
         ELSE /\ ctx' = [ctx EXCEPT ![c].todo = Tail(@), ![c].tx = tx,
                                    ![c].pc = 1, ![c].data = 0]
              /\ UNCHANGED lastTx
    /\ UNCHANGED <<_spi, _ownSpi, csPin, csOutput, spiMode, locked, frame,
                   frameBy, lastFrame, result, corrupt>>

\* The effect on the bus of one micro-operation m executed by context c,
\* the device answering rx
Exec(c, m, rx) ==
    /\ corrupt' = (corrupt \/ (m.op # "endTransaction" /\ Interferes(c)))
    /\ CASE m.op = "beginTransaction" ->
              /\ spiMode' = m.mode
              /\ UNCHANGED <<csPin, frameBy>>
              /\ frame' = Kept(corrupt', frame, <<>>)
              /\ lastFrame' = Kept(corrupt', lastFrame, <<>>)
         [] m.op = "digitalWrite" /\ m.level = "LOW" ->
              /\ csPin' = "LOW"
              /\ frameBy' = c
              /\ frame' = Kept(corrupt', IF csPin = "LOW" THEN frame ELSE <<>>, <<>>)
              /\ lastFrame' = Kept(corrupt', lastFrame, <<>>)
              /\ UNCHANGED spiMode
         [] m.op = "digitalWrite" /\ m.level = "HIGH" ->
              /\ csPin' = "HIGH"
              /\ frameBy' = 0
              /\ frame' = <<>>
              /\ lastFrame' = Kept(corrupt', IF csPin = "LOW" THEN frame ELSE lastFrame, <<>>)
              /\ UNCHANGED spiMode
         [] m.op = "transfer" ->
              /\ frame' = Kept(corrupt',
                               Append(frame, [out |-> m.out, in |-> rx, by |-> c,
                                              mode |-> spiMode, cs |-> csPin]),
                               <<>>)
              /\ lastFrame' = Kept(corrupt', lastFrame, <<>>)
              /\ UNCHANGED <<csPin, spiMode, frameBy>>
         [] OTHER ->
              UNCHANGED <<csPin, spiMode, frame, frameBy, lastFrame>>

\* One step of the transaction in progress; the last one returns
TxStep(c) ==
    /\ ctx[c].tx # NoTx
    /\ LET prog == Prog(ctx[c].tx)
           m == prog[ctx[c].pc]
           last == ctx[c].pc = Len(prog)
       IN \E rx \in (IF m.op = "transfer" /\ m.sh >= 0 THEN Miso ELSE {0}) :
            LET data == IF m.op = "transfer" /\ m.sh >= 0
                        THEN ctx[c].data + rx * Pow2(m.sh)
                        ELSE ctx[c].data
            IN /\ Exec(c, m, rx)
               /\ ctx' = [ctx EXCEPT ![c].data = data,
                                     ![c].pc = IF last THEN 0 ELSE @ + 1,
                                     ![c].tx = IF last THEN NoTx ELSE @]
               /\ lastTx' = Kept(corrupt',
                                 IF last THEN [tx |-> ctx[c].tx, data |-> data, by |-> c,
                                               ran |-> TRUE, frame |-> lastFrame']
                                 ELSE lastTx,
                                 NoLast)
    /\ result' = Kept(corrupt', result, NoResult)
    /\ UNCHANGED <<_spi, _ownSpi, csOutput, locked>>

\* writeChar resumes with the value it read
Continue(c) ==
    /\ ctx[c].call # NoCall
    /\ ctx[c].tx = NoTx
    /\ ctx[c].todo = <<>>
    /\ ctx[c].cont # "none"
    /\ ctx' = [ctx EXCEPT ![c].todo = writeCharCont(ctx[c].cont, ctx[c].data),
                          ![c].cont = "none"]
    /\ UNCHANGED <<_spi, _ownSpi, csPin, csOutput, spiMode, locked, frame,
                   frameBy, lastFrame, lastTx, result, corrupt>>

\* writeString / writeChar takes the next character
NextChar(c) ==
    /\ ctx[c].call # NoCall
    /\ ctx[c].tx = NoTx
    /\ ctx[c].todo = <<>>
    /\ ctx[c].cont = "none"
    /\ ctx[c].str # <<>>
    /\ LET w == writeChar(Head(ctx[c].str)) IN
         ctx' = [ctx EXCEPT ![c].str = Tail(@), ![c].todo = w.todo,
                            ![c].cont = w.cont]
    /\ UNCHANGED <<_spi, _ownSpi, csPin, csOutput, spiMode, locked, frame,
                   frameBy, lastFrame, lastTx, result, corrupt>>

\* The public call returns
Return(c) ==
    /\ ctx[c].call # NoCall
    /\ ctx[c].tx = NoTx
    /\ ctx[c].todo = <<>>
    /\ ctx[c].cont = "none"
    /\ ctx[c].str = <<>>
    /\ result' = Kept(corrupt,
                       [name |-> ctx[c].call.name,
                        val |-> RetVal(ctx[c].call, ctx[c].data)],
                       NoResult)
    /\ ctx' = [ctx EXCEPT ![c] = Idle]
    /\ UNCHANGED <<_spi, _ownSpi, csPin, csOutput, spiMode, locked, frame,
                   frameBy, lastFrame, lastTx, corrupt>>

BusBegin == (\E c \in Ctx : begin(c)) /\ UNCHANGED exceptBus
BusCall == (\E c \in Ctx : \E call \in Calls : Call(c, call)) /\ UNCHANGED exceptBus
BusTxStart == (\E c \in Ctx : TxStart(c)) /\ UNCHANGED exceptBus
BusTxStep == (\E c \in Ctx : TxStep(c)) /\ UNCHANGED exceptBus
BusContinue == (\E c \in Ctx : Continue(c)) /\ UNCHANGED exceptBus
BusNextChar == (\E c \in Ctx : NextChar(c)) /\ UNCHANGED exceptBus
BusReturn == (\E c \in Ctx : Return(c)) /\ UNCHANGED exceptBus

NextBus ==
    \/ BusBegin
    \/ BusCall
    \/ BusTxStart
    \/ BusTxStep
    \/ BusContinue
    \/ BusNextChar
    \/ BusReturn

(***************************************************************************)
(* HQVGA_TFT framebuffer engine (HQVGA_TFT_eSPI.h)                         *)
(*                                                                         *)
(* An image (the local mirror frameBuffer, or the picture the device       *)
(* holds) is a record [base, px]: px maps the linear indices y*WIDTH+x     *)
(* whose value differs from base to that value.  The images that occur     *)
(* override far less than half of the cells, so the record is canonical    *)
(* and two images are equal exactly when the records are.                  *)
(***************************************************************************)
VGA_HSIZE == 160
VGA_VSIZE == 120
HQVGA_WIDTH == VGA_HSIZE
HQVGA_HEIGHT == VGA_VSIZE
HQVGA_FRAMEBUFFER_SIZE == HQVGA_WIDTH * HQVGA_HEIGHT

\* conversion to int16_t
I16(v) == ((v + 32768) % 65536) - 32768
\* conversion to uint8_t
U8(v) == v % 256
\* a < b, a >= b, a > b with a an int and b an unsigned int below 2^31: the
\* comparison is made in unsigned int, where a negative a is a + 2^32
ULt(a, b) == a >= 0 /\ a < b
UGe(a, b) == a < 0 \/ a >= b
UGt(a, b) == a < 0 \/ a > b

NoPx == [i \in {} |-> 0]
Blank(c) == [base |-> c, px |-> NoPx]
Get(img, i) == IF i \in DOMAIN img.px THEN img.px[i] ELSE img.base
Norm(base, px) ==
    [base |-> base,
     px |-> [i \in {j \in DOMAIN px : px[j] # base} |-> px[i]]]

\* A change to an image: every cell := all (unless all = -1), then the
\* cells of px := their value there.  Over(d1, d2) is d1 followed by d2.
NoChange == [all |-> -1, px |-> NoPx]
Over(d1, d2) ==
    IF d2.all # -1 THEN d2 ELSE [all |-> d1.all, px |-> d2.px @@ d1.px]
Changed(img, d) ==
    IF d.all # -1 THEN Norm(d.all, d.px) ELSE Norm(img.base, d.px @@ img.px)

(***************************************************************************)
(* What a drawing operation does, in program order: stores into            *)
(* frameBuffer and calls of VGA_class::putPixel.                           *)
(*   mem     memset(&frameBuffer[at], c, n) or n = 1 for one assignment    *)
(*   put     putPixel(x+i, y, c) for i = 0..n-1                            *)
(*   putAll  putPixel(x, y, c) for every y, every x (row-major)            *)
(*   cpy     putPixel(x+i, y, frameBuffer[y*WIDTH+x+i]) for i = 0..n-1     *)
(*   cpyAll  putPixel(x, y, frameBuffer[y*WIDTH+x]) for every y, every x   *)
(***************************************************************************)
Mem(at, n, c) == [k |-> "mem", x |-> at, y |-> 0, n |-> n, c |-> c]
Put(x, y, n, c) == [k |-> "put", x |-> x, y |-> y, n |-> n, c |-> c]
PutAll(c) == [k |-> "putAll", x |-> 0, y |-> 0, n |-> HQVGA_FRAMEBUFFER_SIZE, c |-> c]
Cpy(x, y, n) == [k |-> "cpy", x |-> x, y |-> y, n |-> n, c |-> 0]
CpyAll == [k |-> "cpyAll", x |-> 0, y |-> 0, n |-> HQVGA_FRAMEBUFFER_SIZE, c |-> 0]
DevKinds == {"put", "putAll", "cpy", "cpyAll"}

\* concatenation of the sequences ss[lo..hi]
RECURSIVE Concat(_, _, _)
Concat(ss, lo, hi) ==
    IF lo > hi THEN <<>>
    ELSE IF lo = hi THEN ss[lo]
    ELSE LET mid == (lo + hi) \div 2
         IN Concat(ss, lo, mid) \o Concat(ss, mid + 1, hi)

AllOf(ss) == Concat(ss, 1, Len(ss))

\* VGA_class::putPixel(x, y, color): device pixel (x, y) takes the colour;
\* here for the run of one put/cpy entry, or the whole picture.  A cpy
\* entry reads the mirror, which no operation that copies also stores to.
putPixel(mirror, e) ==
    LET R == (e.y * HQVGA_WIDTH + e.x) .. (e.y * HQVGA_WIDTH + e.x + e.n - 1)
    IN CASE e.k = "putAll" -> [all |-> e.c, px |-> NoPx]
         [] e.k = "cpyAll" -> [all |-> mirror.base, px |-> mirror.px]
         [] e.k = "put" -> [all |-> -1, px |-> [i \in R |-> e.c]]
         [] e.k = "cpy" -> [all |-> -1, px |-> [i \in R |-> Get(mirror, i)]]
         [] OTHER -> NoChange

\* a store into frameBuffer; a memset of the whole array leaves one colour
memStore(e) ==
    IF e.k # "mem" THEN NoChange
    ELSE IF e.x = 0 /\ e.n = HQVGA_FRAMEBUFFER_SIZE THEN [all |-> e.c, px |-> NoPx]
    ELSE [all |-> -1, px |-> [i \in e.x .. (e.x + e.n - 1) |-> e.c]]

\* the change the entries es[lo..hi] make, in order, to <<mirror, device>>
RECURSIVE Effect(_, _, _, _)
Effect(mirror, es, lo, hi) ==
    IF lo > hi THEN <<NoChange, NoChange>>
    ELSE IF lo = hi THEN <<memStore(es[lo]), putPixel(mirror, es[lo])>>
    ELSE LET mid == (lo + hi) \div 2
             l == Effect(mirror, es, lo, mid)
             r == Effect(mirror, es, mid + 1, hi)
         IN <<Over(l[1], r[1]), Over(l[2], r[2])>>

(***************************************************************************)
(* Colour conversion                                                       *)
(***************************************************************************)
color565to332_Rounded(color565) ==
    LET r == (color565 \div 2048) % 32
        g == (color565 \div 32) % 64
        b == color565 % 32
        Most(v, top) == IF v > top THEN top ELSE v
    IN U8(Most((r + 2) \div 4, 7) * 32 + Most((g + 4) \div 8, 7) * 4
            + Most((b + 4) \div 8, 3))

color565to332(color565) ==
    LET r == (color565 \div 2048) % 32
        g == (color565 \div 32) % 64
        b == color565 % 32
    IN U8((r \div 4) * 32 + (g \div 8) * 4 + (b \div 8))

\* the guard of every per-pixel store
InScreen(x, y) ==
    x >= 0 /\ ULt(x, HQVGA_WIDTH) /\ y >= 0 /\ ULt(y, HQVGA_HEIGHT)

\* frameBuffer[py * WIDTH + px] = c; if (!_buffered) _vga->putPixel(px, py, c);
PixelStore(px, py, c) ==
    <<Mem(py * HQVGA_WIDTH + px, 1, c)>>
        \o (IF ~_buffered THEN <<Put(px, py, 1, c)>> ELSE <<>>)

(***************************************************************************)
(* Drawing primitives: the stores and device writes each one makes         *)
(***************************************************************************)
drawPixel_OffByOne(x, y, color) ==
    IF x >= 0 /\ x <= HQVGA_WIDTH /\ y >= 0 /\ y <= HQVGA_HEIGHT
    THEN PixelStore(x, y, color565to332(color))
    ELSE <<>>

drawPixel(x, y, color) ==
    IF InScreen(x, y)
    THEN PixelStore(x, y, color565to332(color))
    ELSE <<>>

\* the expansion with green one bit too low
readPixel_GreenLow(x, y) ==
    IF x < 0 \/ UGe(x, HQVGA_WIDTH) \/ y < 0 \/ UGe(y, HQVGA_HEIGHT) THEN 0
    ELSE LET c332 == Get(frameBuffer, y * HQVGA_WIDTH + x)
             r == (c332 \div 32) % 8
             g == (c332 \div 4) % 8
             b == c332 % 4
         IN (r * 8192 + g * 128 + b * 8) % 65536

\* readPixel: the mirror cell expanded from 3-3-2 to 5-6-5
readPixel(x, y) ==
    IF x < 0 \/ UGe(x, HQVGA_WIDTH) \/ y < 0 \/ UGe(y, HQVGA_HEIGHT) THEN 0
    ELSE LET c332 == Get(frameBuffer, y * HQVGA_WIDTH + x)
             r == (c332 \div 32) % 8
             g == (c332 \div 4) % 8
             b == c332 % 4
         IN (r * 8192 + g * 256 + b * 8) % 65536

\* HQVGA_GFX: Adafruit_GFX(160, 120); drawPixel has no local mirror and
\* writes through the global VGA object
width == 160
height == 120
GFX_drawPixel(x, y, color) ==
    IF x < 0 \/ x >= width \/ y < 0 \/ y >= height
    THEN <<>>
    ELSE <<Put(x, y, 1, U8(color))>>

fillScreen(color) ==
    LET c332 == color565to332(color)
    IN <<Mem(0, HQVGA_FRAMEBUFFER_SIZE, c332)>>
           \o (IF ~_buffered THEN <<PutAll(c332)>> ELSE <<>>)

drawFastHLine(x, y, w, color) ==
    IF y < 0 \/ UGe(y, HQVGA_HEIGHT) \/ w <= 0 THEN <<>>
    ELSE LET w1 == IF x < 0 THEN I16(w + x) ELSE w
             x1 == IF x < 0 THEN 0 ELSE x
             w2 == IF UGt(x1 + w1, HQVGA_WIDTH) THEN I16(HQVGA_WIDTH - x1) ELSE w1
             c332 == color565to332(color)
         IN IF w2 <= 0 THEN <<>>
            ELSE <<Mem(y * HQVGA_WIDTH + x1, w2, c332)>>
                     \o (IF ~_buffered THEN <<Put(x1, y, w2, c332)>> ELSE <<>>)

drawFastVLine_NoSync(x, y, h, color) ==
    IF x < 0 \/ UGe(x, HQVGA_WIDTH) \/ h <= 0 THEN <<>>
    ELSE LET h1 == IF y < 0 THEN I16(h + y) ELSE h
             y1 == IF y < 0 THEN 0 ELSE y
             h2 == IF UGt(y1 + h1, HQVGA_HEIGHT) THEN I16(HQVGA_HEIGHT - y1) ELSE h1
             c332 == color565to332(color)
         IN IF h2 <= 0 THEN <<>>
            ELSE [i \in 1..h2 |-> Mem((y1 + i - 1) * HQVGA_WIDTH + x, 1, c332)]

drawFastVLine(x, y, h, color) ==
    IF x < 0 \/ UGe(x, HQVGA_WIDTH) \/ h <= 0 THEN <<>>
    ELSE LET h1 == IF y < 0 THEN I16(h + y) ELSE h
             y1 == IF y < 0 THEN 0 ELSE y
             h2 == IF UGt(y1 + h1, HQVGA_HEIGHT) THEN I16(HQVGA_HEIGHT - y1) ELSE h1
             c332 == color565to332(color)
         IN IF h2 <= 0 THEN <<>>
            ELSE [i \in 1..h2 |-> Mem((y1 + i - 1) * HQVGA_WIDTH + x, 1, c332)]
                     \o (IF ~_buffered
                         THEN [i \in 1..h2 |-> Put(x, y1 + i - 1, 1, c332)]
                         ELSE <<>>)

fillRect_AlwaysSync(x, y, w, h, color) ==
    IF w <= 0 \/ h <= 0 THEN <<>>
    ELSE LET w1 == IF x < 0 THEN I16(w + x) ELSE w
             x1 == IF x < 0 THEN 0 ELSE x
             h1 == IF y < 0 THEN I16(h + y) ELSE h
             y1 == IF y < 0 THEN 0 ELSE y
             w2 == IF UGt(x1 + w1, HQVGA_WIDTH) THEN I16(HQVGA_WIDTH - x1) ELSE w1
             h2 == IF UGt(y1 + h1, HQVGA_HEIGHT) THEN I16(HQVGA_HEIGHT - y1) ELSE h1
             c332 == color565to332(color)
         IN IF w2 <= 0 \/ h2 <= 0 THEN <<>>
            ELSE [j \in 1..h2 |-> Mem((y1 + j - 1) * HQVGA_WIDTH + x1, w2, c332)]
                     \o [j \in 1..h2 |-> Put(x1, y1 + j - 1, w2, c332)]

fillRect(x, y, w, h, color) ==
    IF w <= 0 \/ h <= 0 THEN <<>>
    ELSE LET w1 == IF x < 0 THEN I16(w + x) ELSE w
             x1 == IF x < 0 THEN 0 ELSE x
             h1 == IF y < 0 THEN I16(h + y) ELSE h
             y1 == IF y < 0 THEN 0 ELSE y
             w2 == IF UGt(x1 + w1, HQVGA_WIDTH) THEN I16(HQVGA_WIDTH - x1) ELSE w1
             h2 == IF UGt(y1 + h1, HQVGA_HEIGHT) THEN I16(HQVGA_HEIGHT - y1) ELSE h1
             c332 == color565to332(color)
         IN IF w2 <= 0 \/ h2 <= 0 THEN <<>>
            ELSE [j \in 1..h2 |-> Mem((y1 + j - 1) * HQVGA_WIDTH + x1, w2, c332)]
                     \o (IF ~_buffered
                         THEN [j \in 1..h2 |-> Put(x1, y1 + j - 1, w2, c332)]
                         ELSE <<>>)

\* data is the pixel array, data[j*w + i] at position j*w + i + 1
pushImage332(x, y, w, h, data) ==
    IF w <= 0 \/ h <= 0 THEN <<>>
    ELSE AllOf([k \in 1..(w * h) |->
             LET i == (k - 1) % w
                 j == (k - 1) \div w
                 px == I16(x + i)
                 py == I16(y + j)
             IN IF InScreen(px, py) THEN PixelStore(px, py, data[j * w + i + 1])
                ELSE <<>>])

syncBuffer == <<CpyAll>>

syncRegion(x, y, w, h) ==
    LET w1 == IF x < 0 THEN I16(w + x) ELSE w
        x1 == IF x < 0 THEN 0 ELSE x
        h1 == IF y < 0 THEN I16(h + y) ELSE h
        y1 == IF y < 0 THEN 0 ELSE y
        w2 == IF UGt(x1 + w1, HQVGA_WIDTH) THEN I16(HQVGA_WIDTH - x1) ELSE w1
        h2 == IF UGt(y1 + h1, HQVGA_HEIGHT) THEN I16(HQVGA_HEIGHT - y1) ELSE h1
    IN IF w2 <= 0 \/ h2 <= 0 THEN <<>>
       ELSE [j \in 1..h2 |-> Cpy(x1, y1 + j - 1, w2)]

\* drawLine: the fast lines for a horizontal or a vertical one, else the
\* Bresenham loop.  A loop state is <<x0, y0, err>> of the source.
Abs(v) == IF v < 0 THEN -v ELSE v

\* the step that never adds dx back to the error term
LineNext_NoCarry(st, dx, dy, ystep) ==
    LET err == I16(st.err - dy)
    IN IF err < 0
       THEN [x0 |-> I16(st.x0 + 1), y0 |-> I16(st.y0 + ystep), err |-> err]
       ELSE [x0 |-> I16(st.x0 + 1), y0 |-> st.y0, err |-> err]

LineNext(st, dx, dy, ystep) ==
    LET err == I16(st.err - dy)
    IN IF err < 0
       THEN [x0 |-> I16(st.x0 + 1), y0 |-> I16(st.y0 + ystep), err |-> I16(err + dx)]
       ELSE [x0 |-> I16(st.x0 + 1), y0 |-> st.y0, err |-> err]

RECURSIVE LineWalk(_, _, _, _, _)
LineWalk(st, x1, dx, dy, ystep) ==
    IF st.x0 > x1 THEN <<>>
    ELSE <<st>> \o (CHOOSE rest \in {LineWalk(n, x1, dx, dy, ystep) :
                                        n \in {LineNext(st, dx, dy, ystep)}} : TRUE)

\* the pixels of the loop in plotting order, as <<x, y>>
LinePoints_NoSwap(x0, y0, x1, y1) ==
    LET steep == Abs(y1 - y0) > Abs(x1 - x0)
        a0 == IF steep THEN y0 ELSE x0
        b0 == IF steep THEN x0 ELSE y0
        a1 == IF steep THEN y1 ELSE x1
        b1 == IF steep THEN x1 ELSE y1
        dx == I16(a1 - a0)
        dy == I16(Abs(b1 - b0))
        walk == LineWalk([x0 |-> a0, y0 |-> b0, err |-> dx \div 2], a1, dx, dy,
                         IF b0 < b1 THEN 1 ELSE -1)
    IN [i \in 1..Len(walk) |->
          IF steep THEN <<walk[i].y0, walk[i].x0>> ELSE <<walk[i].x0, walk[i].y0>>]

LinePoints(x0, y0, x1, y1) ==
    LET steep == Abs(y1 - y0) > Abs(x1 - x0)
        a0 == IF steep THEN y0 ELSE x0
        b0 == IF steep THEN x0 ELSE y0
        a1 == IF steep THEN y1 ELSE x1
        b1 == IF steep THEN x1 ELSE y1
        swap == a0 > a1
        xs == IF swap THEN a1 ELSE a0
        ys == IF swap THEN b1 ELSE b0
        xe == IF swap THEN a0 ELSE a1
        ye == IF swap THEN b0 ELSE b1
        dx == I16(xe - xs)
        dy == I16(Abs(ye - ys))
        walk == LineWalk([x0 |-> xs, y0 |-> ys, err |-> dx \div 2], xe, dx, dy,
                         IF ys < ye THEN 1 ELSE -1)
    IN [i \in 1..Len(walk) |->
          IF steep THEN <<walk[i].y0, walk[i].x0>> ELSE <<walk[i].x0, walk[i].y0>>]

\* the fast lines given the distance of the end points as their length
drawLine_Short(x0, y0, x1, y1, color) ==
    IF y0 = y1
    THEN drawFastHLine(IF x0 > x1 THEN x1 ELSE x0, y0, I16(Abs(x1 - x0)), color)
    ELSE IF x0 = x1
    THEN drawFastVLine(x0, IF y0 > y1 THEN y1 ELSE y0, I16(Abs(y1 - y0)), color)
    ELSE [p \in {LinePoints(x0, y0, x1, y1)} |->
             AllOf([i \in 1..Len(p) |-> drawPixel(p[i][1], p[i][2], color)])]
         [LinePoints(x0, y0, x1, y1)]

drawLine(x0, y0, x1, y1, color) ==
    IF y0 = y1
    THEN drawFastHLine(IF x0 > x1 THEN x1 ELSE x0, y0, I16(Abs(x1 - x0) + 1), color)
    ELSE IF x0 = x1
    THEN drawFastVLine(x0, IF y0 > y1 THEN y1 ELSE y0, I16(Abs(y1 - y0) + 1), color)
    ELSE [p \in {LinePoints(x0, y0, x1, y1)} |->
             AllOf([i \in 1..Len(p) |-> drawPixel(p[i][1], p[i][2], color)])]
         [LinePoints(x0, y0, x1, y1)]

\* drawCircle: a loop state is <<x, y, f, ddF_x, ddF_y>> of the source
CircleNext(st) ==
    LET down == st.f >= 0
        y == IF down THEN I16(st.y - 1) ELSE st.y
        ddF_y == IF down THEN I16(st.ddF_y + 2) ELSE st.ddF_y
        f1 == IF down THEN I16(st.f + ddF_y) ELSE st.f
        ddF_x == I16(st.ddF_x + 2)
    IN [x |-> I16(st.x + 1), y |-> y, f |-> I16(f1 + ddF_x),
        ddF_x |-> ddF_x, ddF_y |-> ddF_y]

\* the states after each pass of the while loop
RECURSIVE CircleWalk(_)
CircleWalk(st) ==
    IF ~(st.x < st.y) THEN <<>>
    ELSE CHOOSE w \in {<<n>> \o CircleWalk(n) : n \in {CircleNext(st)}} : TRUE

CircleStart(r) ==
    [x |-> 0, y |-> r, f |-> I16(1 - r), ddF_x |-> 1, ddF_y |-> I16(-2 * r)]

Octants_NoExchange(x0, y0, x, y) ==
    << <<x0 + x, y0 + y>>, <<x0 - x, y0 + y>>, <<x0 + x, y0 - y>>, <<x0 - x, y0 - y>> >>

\* the eight pixels of a pass
Octants(x0, y0, x, y) ==
    << <<x0 + x, y0 + y>>, <<x0 - x, y0 + y>>, <<x0 + x, y0 - y>>, <<x0 - x, y0 - y>>,
       <<x0 + y, y0 + x>>, <<x0 - y, y0 + x>>, <<x0 + y, y0 - x>>, <<x0 - y, y0 - x>> >>

\* the pixels in plotting order, as <<x, y>>
CirclePoints(x0, y0, r) ==
    << <<x0, y0 + r>>, <<x0, y0 - r>>, <<x0 + r, y0>>, <<x0 - r, y0>> >>
    \o [w \in {CircleWalk(CircleStart(r))} |->
          AllOf([i \in 1..Len(w) |-> Octants(x0, y0, w[i].x, w[i].y)])]
       [CircleWalk(CircleStart(r))]

drawCircle(x0, y0, r, color) ==
    [p \in {CirclePoints(x0, y0, r)} |->
        AllOf([i \in 1..Len(p) |-> drawPixel(I16(p[i][1]), I16(p[i][2]), color)])]
    [CirclePoints(x0, y0, r)]

\* fillTriangle.  C's integer division; the divisors here are never negative
Quot(a, b) == IF a >= 0 THEN a \div b ELSE -((-a) \div b)

\* a division by zero ends the call
Trap == [k |-> "trap", x |-> 0, y |-> 0, n |-> 0, c |-> 0]

\* one scanline: a = xa + sa / dya; b = xb + sb / dyb; swapped if a > b
TriSpan_NoSwap(xa, sa, dya, xb, sb, dyb, y) ==
    IF dya = 0 \/ dyb = 0 THEN [trap |-> TRUE, x |-> 0, y |-> y, w |-> 0]
    ELSE LET a == I16(xa + Quot(sa, dya))
             b == I16(xb + Quot(sb, dyb))
         IN [trap |-> FALSE, x |-> a, y |-> y, w |-> I16(b - a + 1)]

TriSpan(xa, sa, dya, xb, sb, dyb, y) ==
    IF dya = 0 \/ dyb = 0 THEN [trap |-> TRUE, x |-> 0, y |-> y, w |-> 0]
    ELSE LET a == I16(xa + Quot(sa, dya))
             b == I16(xb + Quot(sb, dyb))
         IN IF a > b THEN [trap |-> FALSE, x |-> b, y |-> y, w |-> I16(a - b + 1)]
            ELSE [trap |-> FALSE, x |-> a, y |-> y, w |-> I16(b - a + 1)]

\* the scanlines y .. last of one pass; e is <<xa, dxa, dya, xb, dxb, dyb>>
RECURSIVE TriWalk(_, _, _, _, _)
TriWalk(y, last, sa, sb, e) ==
    IF y > last THEN <<>>
    ELSE <<TriSpan(e[1], sa, e[3], e[4], sb, e[6], y)>>
         \o TriWalk(y + 1, last, sa + e[2], sb + e[5], e)

\* the vertices as <<x0, y0, x1, y1, x2, y2>> after the three exchanges
TriSorted(x0, y0, x1, y1, x2, y2) ==
    LET Swap01(v) == IF v[2] > v[4] THEN <<v[3], v[4], v[1], v[2], v[5], v[6]>> ELSE v
        Swap12(v) == IF v[4] > v[6] THEN <<v[1], v[2], v[5], v[6], v[3], v[4]>> ELSE v
    IN Swap01(Swap12(Swap01(<<x0, y0, x1, y1, x2, y2>>)))

\* the drawFastHLine calls of fillTriangle, in order
TriSpans(x0, y0, x1, y1, x2, y2) ==
    LET v == TriSorted(x0, y0, x1, y1, x2, y2)
        Min(m, n) == IF m < n THEN m ELSE n
        Max(m, n) == IF m > n THEN m ELSE n
    IN IF v[2] = v[6]
       THEN LET a == Min(Min(v[1], v[3]), v[5])
                b == Max(Max(v[1], v[3]), v[5])
            IN <<[trap |-> FALSE, x |-> a, y |-> v[2], w |-> I16(b - a + 1)]>>
       ELSE LET dx01 == I16(v[3] - v[1])
                dy01 == I16(v[4] - v[2])
                dx02 == I16(v[5] - v[1])
                dy02 == I16(v[6] - v[2])
                dx12 == I16(v[5] - v[3])
                dy12 == I16(v[6] - v[4])
                last == IF v[4] = v[6] THEN v[4] ELSE v[4] - 1
                y == IF last < v[2] THEN v[2] ELSE last + 1
            IN TriWalk(v[2], last, 0, 0, <<v[1], dx01, dy01, v[1], dx02, dy02>>)
               \o TriWalk(y, v[6], dx12 * (y - v[4]), dx02 * (y - v[2]),
                          <<v[3], dx12, dy12, v[1], dx02, dy02>>)

fillTriangle(x0, y0, x1, y1, x2, y2, color) ==
    [sp \in {TriSpans(x0, y0, x1, y1, x2, y2)} |->
        LET traps == {n \in 1..Len(sp) : sp[n].trap}
            upto == IF traps = {} THEN Len(sp)
                    ELSE CHOOSE n \in traps : \A o \in traps : n <= o
        IN AllOf([n \in 1..upto |->
                    IF sp[n].trap THEN <<Trap>>
                    ELSE drawFastHLine(sp[n].x, sp[n].y, sp[n].w, color)])]
    [TriSpans(x0, y0, x1, y1, x2, y2)]

(***************************************************************************)
(* Text: the 5x7 font (the glyphs used here) and drawChar                  *)
(***************************************************************************)
font5x7(c) ==
    CASE c = 32 -> <<0, 0, 0, 0, 0>>
      [] c = 33 -> <<0, 0, 95, 0, 0>>
      [] c = 63 -> <<2, 1, 81, 9, 6>>
      [] c = 65 -> <<126, 17, 17, 17, 126>>

Bit(line, row) == (line \div (2 ^ row)) % 2 = 1

\* the pixel stores of drawChar(c) and the cursor it leaves
drawChar(c0) ==
    LET c == IF c0 < 32 \/ c0 > 127 THEN 63 ELSE c0
        s == _textSize
        Cell(px, py, col) ==
            IF InScreen(px, py) THEN PixelStore(px, py, col) ELSE <<>>
        background ==
            IF _textBgColor # _textColor
            THEN AllOf([k \in 1..(8 * s * 6 * s) |->
                     LET i == (k - 1) % (6 * s)
                         j == (k - 1) \div (6 * s)
                     IN Cell(I16(_cursorX + i), I16(_cursorY + j), _textBgColor)])
            ELSE <<>>
        charData == font5x7(c)
        Dot(col, row) ==
            IF ~Bit(charData[col + 1], row) THEN <<>>
            ELSE IF s = 1
            THEN Cell(I16(_cursorX + col), I16(_cursorY + row), _textColor)
            ELSE AllOf([k \in 1..(s * s) |->
                     LET sx == (k - 1) % s
                         sy == (k - 1) \div s
                     IN Cell(I16(_cursorX + col * s + sx),
                             I16(_cursorY + row * s + sy), _textColor)])
        glyph == AllOf([k \in 1..35 |-> Dot((k - 1) \div 7, (k - 1) % 7)])
        cx == I16(_cursorX + 6 * s)
        wraps == _wrap /\ UGt(cx, HQVGA_WIDTH - 6 * s)
    IN [fx |-> background \o glyph,
        cursorX |-> IF wraps THEN 0 ELSE cx,
        cursorY |-> IF wraps THEN I16(_cursorY + 8 * s) ELSE _cursorY]

(***************************************************************************)
(* Inputs                                                                  *)
(***************************************************************************)
MaxOps == 2

TFT_RED == 63488
TFT_WHITE == 65535

NoOp == [name |-> "", a |-> 0, b |-> 0, c |-> 0, d |-> 0, e |-> 0]
Op1(n, a) == [NoOp EXCEPT !.name = n, !.a = a]
Op2(n, a, b) == [NoOp EXCEPT !.name = n, !.a = a, !.b = b]
Op3(n, a, b, c) == [NoOp EXCEPT !.name = n, !.a = a, !.b = b, !.c = c]
Op4(n, a, b, c, d) == [NoOp EXCEPT !.name = n, !.a = a, !.b = b, !.c = c, !.d = d]
Op5(n, a, b, c, d, e) == [name |-> n, a |-> a, b |-> b, c |-> c, d |-> d, e |-> e]

\* pixel coordinates: the corners, and just outside each edge
PixelArgs ==
    {<<159, 119>>, <<-1, 0>>, <<160, 119>>, <<0, -1>>, <<159, 120>>}
\* <<x, y, w>>: cut at the right, cut at the left, wholly left, below
HLineArgs == {<<158, 1, 5>>, <<-2, 1, 4>>, <<-10, 2, 5>>, <<0, 120, 3>>}
\* <<x, y, h>>
VLineArgs == {<<1, 118, 5>>, <<2, -10, 5>>, <<160, 0, 3>>}
\* <<x, y, w, h>>
RectArgs ==
    {<<158, 118, 5, 5>>, <<-1, -1, 3, 3>>, <<-10, 0, 5, 2>>, <<200, 200, 3, 3>>}
\* <<x, y, w, h, data>>
ImageArgs ==
    {<<159, 119, 2, 2, <<224, 28, 3, 255>> >>, <<-1, 0, 2, 1, <<224, 28>> >>}
CursorArgs == {<<-3, 116>>}
Chars == {65, 7}
RegionArgs == {<<0, 0, 2, 2>>, <<158, 118, 5, 5>>, <<-10, 0, 5, 1>>}

(***************************************************************************)
(* State of the engine after either constructor                            *)
(***************************************************************************)
InitTFT(vgas, shown) ==
    /\ frameBuffer = Blank(0)
    /\ device \in {Blank(c) : c \in shown}
    /\ _vga \in vgas
    /\ _ownsVga = (_vga = "NULL")
    /\ _buffered = FALSE
    /\ _textColor = 255
    /\ _textBgColor = 0
    /\ _textSize = 1
    /\ _cursorX = 0
    /\ _cursorY = 0
    /\ _wrap = TRUE
    /\ fault = FALSE
    /\ lastOp = NoOp
    /\ log = <<>>
    /\ nOps = 0

(***************************************************************************)
(* One call of a drawing operation whose stores and device writes are es.  *)
(* member: the device writes go through the pointer _vga; while that is    *)
(* null the first of them is a null dereference, which ends the program    *)
(* (fault) with the stores made before it in place.                        *)
(***************************************************************************)
FirstDev(es) ==
    CHOOSE k \in 1..(Len(es) + 1) :
        /\ k = Len(es) + 1 \/ es[k].k \in DevKinds
        /\ \A j \in 1..(k - 1) : es[j].k \notin DevKinds

Step(op, es, member) ==
    /\ ~fault
    /\ nOps < MaxOps
    /\ LET nullDeref == member /\ _vga = "NULL" /\ FirstDev(es) <= Len(es)
           done == IF nullDeref THEN SubSeq(es, 1, FirstDev(es) - 1) ELSE es
           change == Effect(frameBuffer, done, 1, Len(done))
       IN /\ frameBuffer' = Changed(frameBuffer, change[1])
          /\ device' = Changed(device, change[2])
          /\ log' = done
          /\ fault' = nullDeref
    /\ lastOp' = op
    /\ nOps' = nOps + 1
    /\ UNCHANGED <<_vga, _ownsVga, _buffered, _wrap, exceptFB>>

TFT_begin ==
    /\ ~fault
    /\ _vga' = "VGA"
    /\ _ownsVga' = IF _vga = "NULL" THEN TRUE ELSE _ownsVga
    /\ UNCHANGED <<frameBuffer, device, _buffered, textVars, _wrap, fault,
                   lastOp, log, nOps, exceptFB>>

startBuffered ==
    /\ ~fault
    /\ _buffered' = TRUE
    /\ UNCHANGED <<frameBuffer, device, _vga, _ownsVga, textVars, _wrap, fault,
                   lastOp, log, nOps, exceptFB>>

endBuffered ==
    /\ ~fault
    /\ _buffered' = FALSE
    /\ UNCHANGED <<frameBuffer, device, _vga, _ownsVga, textVars, _wrap, fault,
                   lastOp, log, nOps, exceptFB>>

DrawPixel ==
    \E p \in PixelArgs :
        /\ Step(Op3("drawPixel", p[1], p[2], TFT_RED),
                drawPixel(p[1], p[2], TFT_RED), TRUE)
        /\ UNCHANGED textVars

GfxDrawPixel ==
    \E p \in {<<1, 1>>, <<160, 0>>} :
        /\ Step(Op3("GFX_drawPixel", p[1], p[2], 28),
                GFX_drawPixel(p[1], p[2], 28), FALSE)
        /\ UNCHANGED textVars

FillScreen ==
    /\ Step(Op1("fillScreen", TFT_WHITE), fillScreen(TFT_WHITE), TRUE)
    /\ UNCHANGED textVars

DrawFastHLine ==
    \E p \in HLineArgs :
        /\ Step(Op4("drawFastHLine", p[1], p[2], p[3], TFT_RED),
                drawFastHLine(p[1], p[2], p[3], TFT_RED), TRUE)
        /\ UNCHANGED textVars

DrawFastVLine ==
    \E p \in VLineArgs :
        /\ Step(Op4("drawFastVLine", p[1], p[2], p[3], TFT_WHITE),
                drawFastVLine(p[1], p[2], p[3], TFT_WHITE), TRUE)
        /\ UNCHANGED textVars

FillRect ==
    \E p \in RectArgs :
        /\ Step(Op5("fillRect", p[1], p[2], p[3], p[4], TFT_RED),
                fillRect(p[1], p[2], p[3], p[4], TFT_RED), TRUE)
        /\ UNCHANGED textVars

PushImage332 ==
    \E p \in ImageArgs :
        /\ Step(Op5("pushImage332", p[1], p[2], p[3], p[4], p[5]),
                pushImage332(p[1], p[2], p[3], p[4], p[5]), TRUE)
        /\ UNCHANGED textVars

setCursor_TFT ==
    \E p \in CursorArgs :
        /\ Step(Op2("setCursor", p[1], p[2]), <<>>, TRUE)
        /\ _cursorX' = p[1]
        /\ _cursorY' = p[2]
        /\ UNCHANGED <<_textColor, _textBgColor, _textSize>>

setTextSize ==
    \E size \in {2} :
        /\ Step(Op1("setTextSize", size), <<>>, TRUE)
        /\ _textSize' = IF size > 0 THEN size ELSE 1
        /\ UNCHANGED <<_textColor, _textBgColor, _cursorX, _cursorY>>

\* setTextColor(color): the background follows the foreground (transparent)
setTextColor_TFT ==
    /\ Step(Op1("setTextColor", TFT_RED), <<>>, TRUE)
    /\ _textColor' = color565to332(TFT_RED)
    /\ _textBgColor' = _textColor'
    /\ UNCHANGED <<_textSize, _cursorX, _cursorY>>

\* print(char c)
print_TFT ==
    \E c \in Chars :
        LET r == drawChar(c)
        IN /\ Step(Op1("print", c), r.fx, TRUE)
           /\ _cursorX' = IF fault' THEN _cursorX ELSE r.cursorX
           /\ _cursorY' = IF fault' THEN _cursorY ELSE r.cursorY
           /\ UNCHANGED <<_textColor, _textBgColor, _textSize>>

SyncBuffer ==
    /\ Step(Op1("syncBuffer", 0), syncBuffer, TRUE)
    /\ UNCHANGED textVars

SyncRegion ==
    \E p \in RegionArgs :
        /\ Step(Op4("syncRegion", p[1], p[2], p[3], p[4]),
                syncRegion(p[1], p[2], p[3], p[4]), TRUE)
        /\ UNCHANGED textVars

NextFB ==
    \/ TFT_begin
    \/ startBuffered
    \/ endBuffered
    \/ DrawPixel
    \/ GfxDrawPixel
    \/ FillScreen
    \/ DrawFastHLine
    \/ DrawFastVLine
    \/ FillRect
    \/ PushImage332
    \/ setCursor_TFT
    \/ setTextSize
    \/ setTextColor_TFT
    \/ print_TFT
    \/ SyncBuffer
    \/ SyncRegion

\* <<x0, y0, x1, y1>>: single points, fast lines, and lines of every octant
LineArgs ==
    {<<5, 5, 5, 5>>, <<159, 119, 159, 119>>, <<3, 7, 6, 7>>, <<6, 7, 3, 7>>,
     <<7, 3, 7, 5>>, <<0, 0, 4, 2>>, <<4, 2, 0, 0>>, <<0, 0, 2, 4>>,
     <<2, 4, 0, 0>>, <<0, 2, 4, 0>>, <<4, 0, 0, 2>>, <<1, 5, 3, 0>>,
     <<3, 0, 1, 5>>, <<0, 0, 3, 3>>, <<3, 3, 0, 0>>, <<159, 100, 130, 119>>}

DrawLine ==
    \E p \in LineArgs :
        /\ Step(Op5("drawLine", p[1], p[2], p[3], p[4], TFT_RED),
                drawLine(p[1], p[2], p[3], p[4], TFT_RED), TRUE)
        /\ UNCHANGED textVars

(***************************************************************************)
(* Colour converters                                                       *)
(*   HQVGA_TFT::color565to332, color565, color332 (HQVGA_TFT_eSPI.h)       *)
(*   HQVGA_GFX::color332 (HQVGA_GFX.h)                                     *)
(*   rgb888to332, rgb565to332 (HQVGA_ImageDec.h)                           *)
(* conv holds the input (in = "565": the 16-bit colour c; in = "888": the   *)
(* 8-bit channels r g b), the converter applied last (fn), its result      *)
(* (out), and, when the input was itself the result of a conversion to     *)
(* 3-3-2, that earlier result (fed).                                       *)
(***************************************************************************)
rgb565to332(color) ==
    LET r == (color \div 2048) % 32
        g == (color \div 32) % 64
        b == color % 32
    IN U8((r \div 4) * 32 + (g \div 8) * 4 + (b \div 8))

rgb888to332(r, g, b) == U8((r \div 32) * 32 + (g \div 32) * 4 + (b \div 64))

color332(r, g, b) == U8((r \div 32) * 32 + (g \div 32) * 4 + (b \div 64))

GFX_color332(r, g, b) == U8((r \div 32) * 32 + (g \div 32) * 4 + (b \div 64))

\* ((r & 0xF8) << 8) | ((g & 0xFC) << 3) | (b >> 3), returned as uint16_t
color565(r, g, b) ==
    ((r \div 8) * 2048 + (g \div 4) * 32 + (b \div 8)) % 65536

NoConv ==
    [in |-> "", fn |-> "", c |-> 0, r |-> 0, g |-> 0, b |-> 0, out |-> -1,
     fed |-> -1]

\* 16-bit inputs: every 3-3-2 byte, and the 5-6-5 colours built from
\* channel values around the bits the conversion keeps
Channel5 == {0, 3, 4, 7, 16, 27, 31}
Channel6 == {0, 7, 8, 32, 55, 63}
Colors565 ==
    (0 .. 255) \cup {r * 2048 + g * 32 + b :
                        r \in Channel5, g \in Channel6, b \in Channel5}
\* 8-bit channel inputs
Channel8 == {0, 31, 32, 63, 64, 191, 224, 255}

InitConv ==
    \/ \E c \in Colors565 : conv = [NoConv EXCEPT !.in = "565", !.c = c]
    \/ \E r, g, b \in Channel8 :
           conv = [NoConv EXCEPT !.in = "888", !.r = r, !.g = g, !.b = b]

To332 ==
    {"color565to332", "rgb565to332", "color332", "GFX_color332", "rgb888to332"}

Applied(fn, out) == [conv EXCEPT !.fn = fn, !.out = out, !.fed = -1]

Convert565to332 ==
    /\ conv.in = "565" /\ conv.fn = ""
    /\ conv' = Applied("color565to332", color565to332(conv.c))
    /\ UNCHANGED exceptConv

ConvertRgb565to332 ==
    /\ conv.in = "565" /\ conv.fn = ""
    /\ conv' = Applied("rgb565to332", rgb565to332(conv.c))
    /\ UNCHANGED exceptConv

ConvertColor332 ==
    /\ conv.in = "888" /\ conv.fn = ""
    /\ conv' = Applied("color332", color332(conv.r, conv.g, conv.b))
    /\ UNCHANGED exceptConv

ConvertGfxColor332 ==
    /\ conv.in = "888" /\ conv.fn = ""
    /\ conv' = Applied("GFX_color332", GFX_color332(conv.r, conv.g, conv.b))
    /\ UNCHANGED exceptConv

ConvertRgb888to332 ==
    /\ conv.in = "888" /\ conv.fn = ""
    /\ conv' = Applied("rgb888to332", rgb888to332(conv.r, conv.g, conv.b))
    /\ UNCHANGED exceptConv

ConvertColor565 ==
    /\ conv.in = "888" /\ conv.fn = ""
    /\ conv' = Applied("color565", color565(conv.r, conv.g, conv.b))
    /\ UNCHANGED exceptConv

\* the result of a conversion is passed on as the colour argument of a
\* drawing call, which converts it with color565to332 (drawPixel, line 218)
ConvertAgain ==
    /\ conv.fn \in To332
    /\ conv.fed = -1
    /\ conv' = [conv EXCEPT !.fn = "color565to332", !.c = conv.out,
                            !.out = color565to332(conv.out), !.fed = conv.out]
    /\ UNCHANGED exceptConv

NextConv ==
    \/ Convert565to332
    \/ ConvertRgb565to332
    \/ ConvertColor332
    \/ ConvertGfxColor332
    \/ ConvertRgb888to332
    \/ ConvertColor565
    \/ ConvertAgain

\* HQVGA_LVGL::toRGB332 with blue cut to three bits instead of two
LVGL_toRGB332_Blue3(r, g, b) == U8((r \div 32) * 32 + (g \div 32) * 4 + (b \div 32))

\* HQVGA_LVGL::toRGB332
LVGL_toRGB332(r, g, b) == U8((r \div 32) * 32 + (g \div 32) * 4 + (b \div 64))

\* HQVGA_U8g2::toRGB332
U8g2_toRGB332(r, g, b) == U8((r \div 32) * 32 + (g \div 32) * 4 + (b \div 64))

\* 8-bit channel inputs on both sides of every bit the converters cut at
ChannelEdges ==
    {0, 3, 4, 7, 8, 31, 32, 63, 64, 127, 128, 191, 192, 223, 224, 255}

\* every 16-bit colour, and the channels of ChannelEdges
InitConvAll ==
    \/ \E c \in 0..65535 : conv = [NoConv EXCEPT !.in = "565", !.c = c]
    \/ \E r, g, b \in ChannelEdges :
           conv = [NoConv EXCEPT !.in = "888", !.r = r, !.g = g, !.b = b]

ConvertLvgl ==
    /\ conv.in = "888" /\ conv.fn = ""
    /\ conv' = Applied("LVGL_toRGB332", LVGL_toRGB332(conv.r, conv.g, conv.b))
    /\ UNCHANGED exceptConv

ConvertU8g2 ==
    /\ conv.in = "888" /\ conv.fn = ""
    /\ conv' = Applied("U8g2_toRGB332", U8g2_toRGB332(conv.r, conv.g, conv.b))
    /\ UNCHANGED exceptConv

\* color565to332(color565(r, g, b))
ConvertVia565 ==
    /\ conv.fn = "color565"
    /\ conv' = [conv EXCEPT !.fn = "color565to332", !.c = conv.out,
                            !.out = color565to332(conv.out), !.fed = conv.out]
    /\ UNCHANGED exceptConv

\* every converter on the same inputs
NextConvAll ==
    \/ Convert565to332
    \/ ConvertRgb565to332
    \/ ConvertColor332
    \/ ConvertGfxColor332
    \/ ConvertRgb888to332
    \/ ConvertLvgl
    \/ ConvertU8g2
    \/ ConvertColor565
    \/ ConvertVia565

(***************************************************************************)
(* Device-backed text mode: the character engine of the device as the      *)
(* controller sees it, and the windowed emulator HDMILiquidCrystal.        *)
(*                                                                         *)
(* The device holds a cursor-position pair; a write to the character       *)
(* register stores at the cursor and advances it.  Of each call, lcdLog    *)
(* keeps the register transactions that reached the device, each with the  *)
(* device cursor it met and how that cursor came about: "set" by a         *)
(* cursor-set (X then Y), "advance" by a stored character, "reset" when    *)
(* nothing has touched it.                                                 *)
(***************************************************************************)
TEXT_COLS == 80
HDMI_COLOR_BLACK == 0
HDMI_COLOR_WHITE == 15

\* a transaction reaches the device unless the transport returns early
OnWire(tx) == Prog(tx) # <<>>
\* the register a transaction selects: the address byte of its frame
Selected(tx) == tx.address % 256

\* the device cursor after a character has been stored at it: one column on;
\* past the last column the row it goes to is not followed, the row is kept
Advance(reg) == [reg EXCEPT !.x = (reg.x + 1) % TEXT_COLS, !.by = "advance"]

\* one register transaction at the device
DevStep(d, tx) ==
    IF ~OnWire(tx) THEN d
    ELSE LET e == [kind |-> tx.kind, reg |-> Selected(tx), val |-> tx.data,
                   x |-> d.reg.x, y |-> d.reg.y, by |-> d.reg.by]
             r == IF tx.kind # "W8" THEN d.reg
                  ELSE IF Selected(tx) = REG_CHARRAM_CURSOR_X
                       THEN [d.reg EXCEPT !.x = tx.data, !.by = "setX"]
                  ELSE IF Selected(tx) = REG_CHARRAM_CURSOR_Y
                       THEN [d.reg EXCEPT !.y = tx.data,
                                         !.by = IF d.reg.by = "setX" THEN "set" ELSE "setY"]
                  ELSE IF Selected(tx) = REG_CHARRAM_CHAR
                       THEN Advance(d.reg)
                  ELSE d.reg
         IN [reg |-> r, log |-> Append(d.log, e)]

\* the first n transactions of txs, in program order
RECURSIVE DevRun(_, _, _)
DevRun(reg, txs, n) ==
    IF n = 0 THEN [reg |-> reg, log |-> <<>>]
    ELSE CHOOSE r \in {DevStep(d, txs[n]) : d \in {DevRun(reg, txs, n - 1)}} : TRUE

(***************************************************************************)
(* HDMILiquidCrystal (HDMILiquidCrystal.cpp); every field is a uint8_t     *)
(***************************************************************************)
updateCursor(col, row, offY) ==
    IF _hdmi = "NULL" THEN <<>>
    ELSE setCursor(U8(_displayOffsetX + col), U8(offY + row))

\* a call: the transactions it issues and the fields it leaves
Left(txs, col, row, offY, ret) ==
    [txs |-> txs, col |-> col, row |-> row, offY |-> offY, ret |-> ret]

\* setCursor on a window of cols x rows cells
LCD_setCursor_Unclamped(col, row, cols, rows) ==
    Left(updateCursor(col, row, _displayOffsetY), col, row, _displayOffsetY, 0)

LCD_setCursor(col, row, cols, rows) ==
    LET c == IF col >= cols THEN U8(cols - 1) ELSE col
        r == IF row >= rows THEN U8(rows - 1) ELSE row
    IN Left(updateCursor(c, r, _displayOffsetY), c, r, _displayOffsetY, 0)

LCD_home(cols, rows) == LCD_setCursor(0, 0, cols, rows)

\* the rows row, row + 1, ... of the window, blanked
RECURSIVE clearRows(_, _, _)
clearRows(row, cols, rows) ==
    IF row >= rows THEN <<>>
    ELSE setCursor(_displayOffsetX, U8(_displayOffsetY + row))
         \o [col \in 1..cols |-> writeChar(32).todo[1]]
         \o clearRows(row + 1, cols, rows)

LCD_clear(cols, rows) ==
    IF _hdmi = "NULL"
    THEN Left(<<>>, _cursorCol, _cursorRow, _displayOffsetY, 0)
    ELSE [LCD_home(cols, rows) EXCEPT !.txs = clearRows(0, cols, rows) \o @]

LCD_begin(cols, rows) ==
    LET c == IF cols > 0 THEN cols ELSE _cols
        r == IF rows > 0 THEN rows ELSE _rows
        body == IF _hdmi = "NULL"
                THEN Left(<<>>, _cursorCol, _cursorRow, _displayOffsetY, 0)
                ELSE [LCD_clear(c, r) EXCEPT
                        !.txs = setVideoPattern(PATTERN_TEXT_MODE) \o @
                                \o setTextColor(HDMI_COLOR_WHITE, HDMI_COLOR_BLACK)]
    IN [txs |-> body.txs, col |-> body.col, row |-> body.row,
        offY |-> body.offY, ret |-> 0, cols |-> c, rows |-> r]

\* the cursor and the window offset after the cursor has run off a row
nextRow(row, rows, offY, scroll) ==
    IF row < rows - 1 THEN [row |-> U8(row + 1), offY |-> offY]
    ELSE IF scroll THEN [row |-> row, offY |-> U8(offY + 1)]
    ELSE [row |-> row, offY |-> offY]

LCD_write(c) ==
    LET same == Left(<<>>, _cursorCol, _cursorRow, _displayOffsetY, 1)
    IN IF _hdmi = "NULL" \/ ~_displayOn THEN [same EXCEPT !.ret = 0]
       ELSE IF c = 10 THEN
            LET n == nextRow(_cursorRow, _rows, _displayOffsetY, _autoscroll)
            IN Left(updateCursor(0, n.row, n.offY), 0, n.row, n.offY, 1)
       ELSE IF c = 13 THEN
            Left(updateCursor(0, _cursorRow, _displayOffsetY),
                 0, _cursorRow, _displayOffsetY, 1)
       ELSE IF c >= 32 /\ c <= 126 /\ _cursorCol < _cols THEN
            LET col1 == U8(_cursorCol + 1)
                n == IF _leftToRight /\ col1 >= _cols /\ _autoscroll
                     THEN nextRow(_cursorRow, _rows, _displayOffsetY, TRUE)
                     ELSE [row |-> _cursorRow, offY |-> _displayOffsetY]
                col == IF _leftToRight
                       THEN (IF col1 >= _cols
                             THEN (IF _autoscroll THEN 0 ELSE U8(_cols - 1))
                             ELSE col1)
                       ELSE (IF _cursorCol > 0 THEN _cursorCol - 1 ELSE _cursorCol)
            IN Left(writeChar(c).todo \o updateCursor(col, n.row, n.offY),
                    col, n.row, n.offY, 1)
       ELSE same

(***************************************************************************)
(* The emulator's calls as steps.  lcdOp names the call and keeps the      *)
(* fields it found.                                                        *)
(***************************************************************************)
\* the window offset is followed up to the first row from which the window
\* no longer fits the device
MaxOffsetY == 29
Dims == {<<4, 2>>}
BeginArgs == {<<0, 0>>, <<4, 2>>}
LcdCursorArgs == {<<0, 0>>, <<2, 1>>, <<200, 200>>}
HdmiCursorArgs == {<<0, 0>>, <<79, 29>>, <<78, 28>>, <<80, 5>>, <<5, 30>>}
LcdChars == {65, 10, 13, 7}
PowerUp == {<<0, 0>>, <<5, 7>>}
NoLcdOp == [name |-> "none", a |-> 0, b |-> 0, col |-> 0, row |-> 0,
            offX |-> 0, offY |-> 0, cols |-> 0, rows |-> 0, ret |-> 0]
LcdOp(name, a, b, ret) ==
    [name |-> name, a |-> a, b |-> b, col |-> _cursorCol, row |-> _cursorRow,
     offX |-> _displayOffsetX, offY |-> _displayOffsetY,
     cols |-> _cols, rows |-> _rows, ret |-> ret]

InitDevice ==
    /\ \E p \in PowerUp : cursorReg = [x |-> p[1], y |-> p[2], by |-> "reset"]
    /\ lcdOp = NoLcdOp
    /\ lcdLog = <<>>

InitLCD(hdmis) ==
    /\ _hdmi \in hdmis
    /\ \E d \in Dims : _cols = d[1] /\ _rows = d[2]
    /\ _displayOffsetX = 0
    /\ _displayOffsetY = 0
    /\ _cursorCol = 0
    /\ _cursorRow = 0
    /\ _displayOn = TRUE
    /\ _cursorOn = FALSE
    /\ _blinkOn = FALSE
    /\ _leftToRight = TRUE
    /\ _autoscroll = FALSE
    /\ begun = FALSE
    /\ InitDevice

\* the transactions of a call meet the device; the call leaves its fields
LcdStep(name, a, b, left) ==
    /\ left.offY <= MaxOffsetY
    /\ LET d == DevRun(cursorReg, left.txs, Len(left.txs))
       IN cursorReg' = d.reg /\ lcdLog' = d.log
    /\ lcdOp' = LcdOp(name, a, b, left.ret)
    /\ _cursorCol' = left.col
    /\ _cursorRow' = left.row
    /\ _displayOffsetY' = left.offY
    /\ UNCHANGED <<_hdmi, _displayOffsetX, _cursorOn, _blinkOn, exceptLCD>>

begin_LCD ==
    \E a \in BeginArgs :
        LET left == LCD_begin(a[1], a[2])
        IN /\ LcdStep("begin", a[1], a[2], left)
           /\ _cols' = left.cols
           /\ _rows' = left.rows
           /\ begun' = TRUE
           /\ UNCHANGED <<_displayOn, _leftToRight, _autoscroll>>

clear_LCD ==
    /\ LcdStep("clear", 0, 0, LCD_clear(_cols, _rows))
    /\ UNCHANGED <<_cols, _rows, begun, _displayOn, _leftToRight, _autoscroll>>

home_LCD ==
    /\ LcdStep("home", 0, 0, LCD_home(_cols, _rows))
    /\ UNCHANGED <<_cols, _rows, begun, _displayOn, _leftToRight, _autoscroll>>

setCursor_LCD ==
    \E a \in LcdCursorArgs :
        /\ LcdStep("setCursor", a[1], a[2], LCD_setCursor(a[1], a[2], _cols, _rows))
        /\ UNCHANGED <<_cols, _rows, begun, _displayOn, _leftToRight, _autoscroll>>

write_LCD ==
    \E c \in LcdChars :
        /\ LcdStep("write", c, 0, LCD_write(c))
        /\ UNCHANGED <<_cols, _rows, begun, _displayOn, _leftToRight, _autoscroll>>

\* leftToRight, rightToLeft, autoscroll, noAutoscroll, display, noDisplay
Keep == Left(<<>>, _cursorCol, _cursorRow, _displayOffsetY, 0)

leftToRight ==
    /\ LcdStep("leftToRight", 0, 0, Keep)
    /\ _leftToRight' = TRUE
    /\ UNCHANGED <<_cols, _rows, begun, _displayOn, _autoscroll>>

rightToLeft ==
    /\ LcdStep("rightToLeft", 0, 0, Keep)
    /\ _leftToRight' = FALSE
    /\ UNCHANGED <<_cols, _rows, begun, _displayOn, _autoscroll>>

autoscroll ==
    /\ LcdStep("autoscroll", 0, 0, Keep)
    /\ _autoscroll' = TRUE
    /\ UNCHANGED <<_cols, _rows, begun, _displayOn, _leftToRight>>

noAutoscroll ==
    /\ LcdStep("noAutoscroll", 0, 0, Keep)
    /\ _autoscroll' = FALSE
    /\ UNCHANGED <<_cols, _rows, begun, _displayOn, _leftToRight>>

\* the display, cursor and blink switches and setColor: the call sets one
\* flag at most and issues txs
FlagStep(name, a, b, txs) ==
    /\ LET d == DevRun(cursorReg, txs, Len(txs))
       IN cursorReg' = d.reg /\ lcdLog' = d.log
    /\ lcdOp' = LcdOp(name, a, b, 0)
    /\ UNCHANGED <<_hdmi, _cols, _rows, _displayOffsetX, _displayOffsetY, _cursorCol,
                   _cursorRow, _leftToRight, _autoscroll, begun, exceptLCD>>

ShowCursor == updateCursor(_cursorCol, _cursorRow, _displayOffsetY)

noDisplay_LCD ==
    /\ FlagStep("noDisplay", 0, 0, <<>>)
    /\ _displayOn' = FALSE
    /\ UNCHANGED <<_cursorOn, _blinkOn>>

display_LCD ==
    /\ FlagStep("display", 0, 0, <<>>)
    /\ _displayOn' = TRUE
    /\ UNCHANGED <<_cursorOn, _blinkOn>>

noCursor_LCD ==
    /\ FlagStep("noCursor", 0, 0, ShowCursor)
    /\ _cursorOn' = FALSE
    /\ UNCHANGED <<_displayOn, _blinkOn>>

cursor_LCD ==
    /\ FlagStep("cursor", 0, 0, ShowCursor)
    /\ _cursorOn' = TRUE
    /\ UNCHANGED <<_displayOn, _blinkOn>>

noBlink_LCD ==
    /\ FlagStep("noBlink", 0, 0, ShowCursor)
    /\ _blinkOn' = FALSE
    /\ UNCHANGED <<_displayOn, _cursorOn>>

blink_LCD ==
    /\ FlagStep("blink", 0, 0, ShowCursor)
    /\ _blinkOn' = TRUE
    /\ UNCHANGED <<_displayOn, _cursorOn>>

setColor_LCD ==
    /\ FlagStep("setColor", HDMI_COLOR_WHITE, HDMI_COLOR_BLACK,
                IF _hdmi = "NULL" THEN <<>>
                ELSE setTextColor(HDMI_COLOR_WHITE, HDMI_COLOR_BLACK))
    /\ UNCHANGED <<_displayOn, _cursorOn, _blinkOn>>

\* print(str) for the empty string and for a string of one letter
print_LCD ==
    \E str \in {<<>>, <<65>>} :
        /\ LcdStep("print", Len(str), 0, IF str = <<>> THEN Keep ELSE LCD_write(str[1]))
        /\ UNCHANGED <<_cols, _rows, begun, _displayOn, _leftToRight, _autoscroll>>

NextLCD ==
    \/ begin_LCD
    \/ clear_LCD
    \/ home_LCD
    \/ setCursor_LCD
    \/ write_LCD
    \/ leftToRight
    \/ rightToLeft
    \/ autoscroll
    \/ noAutoscroll

(***************************************************************************)
(* The controller's own text calls as steps on the same device             *)
(***************************************************************************)
\* writeChar whole: what it reads from the device decides what it writes
writeCharAll(c) ==
    LET w == writeChar(c)
        y == IF OnWire(R8(REG_CHARRAM_CURSOR_Y)) THEN cursorReg.y ELSE 0
    IN IF w.cont = "none" THEN w.todo ELSE w.todo \o writeCharCont(w.cont, y)

HdmiStep(name, a, b, txs) ==
    /\ LET d == DevRun(cursorReg, txs, Len(txs))
       IN cursorReg' = d.reg /\ lcdLog' = d.log
    /\ lcdOp' = LcdOp(name, a, b, 0)
    /\ UNCHANGED <<lcdFields, begun, exceptLCD>>

setCursor_HDMI ==
    \E a \in HdmiCursorArgs : HdmiStep("HDMI.setCursor", a[1], a[2], setCursor(a[1], a[2]))

writeChar_HDMI ==
    \E c \in LcdChars : HdmiStep("HDMI.writeChar", c, 0, writeCharAll(c))

clearScreen_HDMI == HdmiStep("HDMI.clearScreen", 0, 0, clearScreen)

NextText ==
    \/ setCursor_HDMI
    \/ writeChar_HDMI
    \/ clearScreen_HDMI

(***************************************************************************)
(* Host-side virtual grid: VGALiquidCrystal (VGALiquidCrystal.cpp)         *)
(*                                                                         *)
(* The handlers are functions of the object g, a record of its fields.     *)
(* g.junk is the byte that lies outside ddram, g.fault tells that a store  *)
(* went outside it, and g.log keeps what the call in progress did, in      *)
(* program order:                                                          *)
(*   store  ddram[at] = v            table  a read of row_offsets[at]      *)
(*   load   a read of ddram[at]      glyph  chrtbl[at] = a byte of charmap *)
(*   draw   putcharat(v, at)                                               *)
(* Where putcharat puts its pixels (_x0, _y0, the colours) is not followed.*)
(***************************************************************************)
DDRAM_SIZE == 104
ROW_OFFSETS == <<0, 64, 20, 84>>
BLANK == 32

\* the C remainder: the sign of the dividend
CRem(a, b) == IF a >= 0 THEN a % b ELSE -((-a) % b)

\* an unsigned int as two 16-bit halves; a + d for small a and d
U32(v) == [hi |-> 0, lo |-> v]
U32Add(a, d) ==
    IF a + d >= 0 THEN U32(a + d) ELSE [hi |-> 65535, lo |-> 65536 + a + d]
U32Gt(u, n) == u.hi > 0 \/ u.lo > n
U32Lt(u, n) == u.hi = 0 /\ u.lo < n
U32Mod(u, n) == ((u.hi % n) * (65536 % n) + (u.lo % n)) % n

\* f applied to the value of v, which is worked out once
Bind(v, f(_)) == CHOOSE r \in {f(x) : x \in {v}} : TRUE

Logged(g, e) == [g EXCEPT !.log = Append(@, e)]

\* ddram[at]; outside the array it is whatever lies there (g.junk)
Load(g, at) == IF at < DDRAM_SIZE THEN g.ddram[at] ELSE g.junk

putcharat(chr, pos) == [k |-> "draw", at |-> pos, v |-> chr]

initCurrentDisplayChars(g) ==
    [g EXCEPT !.currentDisplayChars = [i \in 0..31 |->
        [chr |-> BLANK, addr |-> IF i < 16 THEN i ELSE 48 + i]]]

\* the second-line address of position i, stored into a uint8_t and folded
SecondLine(i, shiftChars) ==
    LET a == IF shiftChars < 0 THEN U8(i + 40 + shiftChars + 48)
             ELSE U8(i + shiftChars + 48)
    IN IF a > 103 THEN U8((a % 104) + 64) ELSE a

setCurrentDisplayChars(g) ==
    [g EXCEPT !.currentDisplayChars = [i \in 0..31 |->
        [@[i] EXCEPT !.addr =
            IF g._lines = 1
            THEN (IF i < 16 THEN U8(CRem(i + 80 + g.shiftChars, 80)) ELSE @)
            ELSE (IF i < 16 THEN U8(CRem(i + 40 + g.shiftChars, 40))
                  ELSE SecondLine(i, g.shiftChars))]]]

blankDisplay(g) ==
    [g EXCEPT !.log = @ \o [n \in 1..g.displayRange |-> putcharat(BLANK, n - 1)],
              !.currentDisplayChars = [i \in 0..31 |-> [@[i] EXCEPT !.chr = BLANK]]]

\* updateCharAt(i) for i = 0 .. n - 1: what it reads and what it redraws
updateCharAt(g, n) ==
    LET at(i) == g.currentDisplayChars[i].addr
        both == [j \in 1..(2 * n) |->
                    LET i == (j - 1) \div 2
                    IN IF j % 2 = 1 THEN [k |-> "load", at |-> at(i), v |-> Load(g, at(i))]
                       ELSE putcharat(Load(g, at(i)), i)]
        done(e) == e.k = "load" \/ g.currentDisplayChars[e.at].chr # e.v
    IN [g EXCEPT !.log = @ \o SelectSeq(both, done),
                 !.currentDisplayChars = [i \in 0..31 |->
                            IF i < n THEN [@[i] EXCEPT !.chr = Load(g, at(i))] ELSE @[i]]]

updateDisplay(g) ==
    LET mapped == setCurrentDisplayChars(g)
        limit == IF g._lines = 0 THEN 79 ELSE 39
        wrapped == IF mapped.shiftChars > limit \/ mapped.shiftChars < -limit
                   THEN [mapped EXCEPT !.shiftChars = 0] ELSE mapped
    IN IF ~g.display_on THEN Bind(mapped, blankDisplay)
       ELSE Bind(wrapped, LAMBDA w : updateCharAt(w, IF w._lines > 0 THEN 32 ELSE 16))

Grid_clear(g) ==
    updateDisplay([g EXCEPT !.ddram = [a \in 0..(DDRAM_SIZE - 1) |-> BLANK],
                            !.increment = 1, !.AC = 0, !.shiftChars = 0])

Grid_home(g) == [g EXCEPT !.AC = 0, !.shiftChars = 0]

Grid_display(g) == updateDisplay([g EXCEPT !.display_on = TRUE])
Grid_noDisplay(g) == updateDisplay([g EXCEPT !.display_on = FALSE])

Grid_begin(g, cols, lines) ==
    LET set == [g EXCEPT !._lines = lines, !._cols = cols,
                         !.displayRange = IF lines > 1 THEN 32 ELSE 16,
                         !.blink_on = FALSE, !.cursor_on = FALSE,
                         !.scroll_on = FALSE, !.display_on = TRUE,
                         !.increment = 1, !.shiftChars = 0, !.AC = 0]
    IN Bind(Bind(Bind(initCurrentDisplayChars(set), Grid_clear), Grid_display),
            blankDisplay)

\* setCursor; stray is what a read past the end of row_offsets returns
TableRow(g, row) == IF row > g._lines THEN U8(g._lines - 1) ELSE row
InTable(g, row) == TableRow(g, row) < Len(ROW_OFFSETS)

Grid_setCursor(g, col, row, stray) ==
    LET r == TableRow(g, row)
        off == IF InTable(g, row) THEN ROW_OFFSETS[r + 1] ELSE stray
    IN [Logged(g, [k |-> "table", at |-> r, v |-> off]) EXCEPT !.AC = col + off]

\* the address counter after AC += increment and the wrap of the layout
Advanced_NoWrap(lines, AC, increment) ==
    IF lines = 0 THEN AC + increment
    ELSE Bind(AC + increment, LAMBDA a :
              IF a > 39 /\ a < 64 THEN 64 ELSE IF a > 103 THEN 0 ELSE a)

Advanced_NoRemap(lines, AC, increment) ==
    IF lines = 0 THEN (AC + increment) % 80
    ELSE Bind(AC + increment, LAMBDA a : IF a > 103 THEN 0 ELSE a)

Advanced(lines, AC, increment) ==
    LET u == U32Add(AC, increment)
    IN IF lines = 0 THEN U32Mod(u, 80)
       ELSE IF U32Gt(u, 39) /\ U32Lt(u, 64) THEN 64
       ELSE IF U32Gt(u, 103) THEN 0
       ELSE u.lo

Grid_write(g, value) ==
    LET stored == IF g.AC < DDRAM_SIZE
                  THEN [g EXCEPT !.ddram[g.AC] = value]
                  ELSE [g EXCEPT !.fault = TRUE]
        moved == [Logged(stored, [k |-> "store", at |-> g.AC, v |-> value])
                    EXCEPT !.shiftChars = IF g.scroll_on THEN @ + g.increment ELSE @,
                           !.AC = Advanced(g._lines, g.AC, g.increment)]
    IN Bind(moved, updateDisplay)

Grid_scrollDisplayLeft(g) == updateDisplay([g EXCEPT !.shiftChars = @ + 1])
Grid_scrollDisplayRight(g) == updateDisplay([g EXCEPT !.shiftChars = @ - 1])

Grid_createChar(g, location, charmap) ==
    LET slot == location % 8
        glyphs == [n \in 1..8 |-> [k |-> "glyph", at |-> slot * 8 + n - 1, v |-> charmap]]
        shown == [n \in 1..g.displayRange |-> putcharat(g.currentDisplayChars[n - 1].chr, n - 1)]
        redrawn == IF g.display_on
                   THEN SelectSeq(shown, LAMBDA e : e.v = slot) ELSE <<>>
    IN updateDisplay([g EXCEPT !.chrtbl[slot] = charmap,
                               !.log = @ \o glyphs \o redrawn])

(***************************************************************************)
(* The grid's calls as steps.  gridOp names the call and keeps the object  *)
(* it found; run counts the writes made one after the other since the      *)
(* address counter was put to 0 with increment +1 (-1: no such run).       *)
(***************************************************************************)
MaxRun == 165
Junk == {0, 65}
Stray == {0, 200}
GridBeginArgs == {<<16, 0>>, <<16, 1>>, <<16, 2>>}
GridCursorArgs == {<<0, 1>>, <<40, 0>>, <<255, 1>>, <<0, 3>>}
GridChars == {BLANK}
MaxInk == 1
MaxTrip == 2
InkChars == {65}
GlyphChars == {3}
MaxShift == 2
GlyphArgs == {<<3, 1>>, <<11, 1>>}

NoGridOp == [name |-> "none", a |-> 0, b |-> 0, found |-> <<>>]
NoTrip == [open |-> <<>>, closed |-> <<>>]

Unwatched == <<>>
NeverDrawn == [i \in 0..31 |-> -1]

InitGridOn(scr) ==
    /\ \E j \in Junk :
        grid = [ddram |-> [a \in 0..(DDRAM_SIZE - 1) |-> 0],
                chrtbl |-> [slot \in 0..7 |-> 0],
                shiftChars |-> 0, AC |-> 0, _cols |-> 0, _lines |-> 0,
                increment |-> 0, displayRange |-> 0,
                display_on |-> FALSE, blink_on |-> FALSE, cursor_on |-> FALSE,
                scroll_on |-> FALSE,
                currentDisplayChars |-> [i \in 0..31 |-> [chr |-> 0, addr |-> 0]],
                junk |-> j, fault |-> FALSE, log |-> <<>>]
    /\ gridOp = NoGridOp
    /\ run = -1
    /\ trip = NoTrip
    /\ screen = scr

InitGrid == InitGridOn(Unwatched)

\* the object as a call finds it
Entered == [grid EXCEPT !.log = <<>>]

\* begin has run
Begun == grid.displayRange # 0

\* the screen after the putcharat calls of a log; -1 where none was made yet
Painted(scr, events) ==
    IF DOMAIN scr = {} THEN scr
    ELSE [i \in 0..31 |->
            LET ds == {n \in 1..Len(events) : events[n].k = "draw" /\ events[n].at = i}
            IN IF ds = {} THEN scr[i]
               ELSE events[CHOOSE n \in ds : \A o \in ds : o <= n].v]

\* a call is followed once begin has run and until a store goes astray
GridStep(name, a, b, g, r) ==
    /\ ~grid.fault
    /\ name # "begin" => Begun
    /\ grid' = g
    /\ screen' = Painted(screen, g.log)
    /\ gridOp' = [name |-> name, a |-> a, b |-> b, found |-> Entered]
    /\ run' = r
    /\ trip' = NoTrip
    /\ UNCHANGED exceptGrid

begin_VGA ==
    \E a \in GridBeginArgs : GridStep("begin", a[1], a[2], Grid_begin(Entered, a[1], a[2]), 0)

clear_VGA == GridStep("clear", 0, 0, Grid_clear(Entered), 0)

home_VGA ==
    GridStep("home", 0, 0, Grid_home(Entered), IF grid.increment = 1 THEN 0 ELSE -1)

setCursor_VGA ==
    \E a \in GridCursorArgs :
        \E stray \in IF InTable(grid, a[2]) THEN {0} ELSE Stray :
            GridStep("setCursor", a[1], a[2], Grid_setCursor(Entered, a[1], a[2], stray), -1)

write_VGA ==
    \E c \in GridChars :
        /\ run < MaxRun
        /\ GridStep("write", c, 0, Grid_write(Entered, c), IF run >= 0 THEN run + 1 ELSE -1)

leftToRight_VGA ==
    GridStep("leftToRight", 0, 0, [Entered EXCEPT !.increment = 1],
             IF grid.AC = 0 THEN 0 ELSE -1)

rightToLeft_VGA ==
    GridStep("rightToLeft", 0, 0, [Entered EXCEPT !.increment = -1], -1)

createChar_VGA ==
    \E a \in GlyphArgs :
        GridStep("createChar", a[1], a[2], Grid_createChar(Entered, a[1], a[2]), run)

\* a glyph written in the first cells of the store
write_Ink ==
    \E c \in InkChars :
        /\ grid.AC < MaxInk
        /\ GridStep("write", c, 0, Grid_write(Entered, c), -1)

\* the shift limit of updateDisplay
ShiftLimit(g) == IF g._lines = 0 THEN 79 ELSE 39
Beyond(g, shift) == shift > ShiftLimit(g) \/ shift < -ShiftLimit(g)

\* a render that reads past the end of ddram
ReadsAstray(g) ==
    \E i \in 1..Len(g.log) : g.log[i].k = "load" /\ g.log[i].at >= DDRAM_SIZE

\* the viewport a scroll call finds: the shift, the address and the drawn
\* character of every position, and whether a render would leave them alone
Viewport(g) ==
    [shiftChars |-> g.shiftChars,
     currentDisplayChars |-> g.currentDisplayChars,
     current |-> LET r == Bind(g, updateDisplay)
                 IN /\ r.shiftChars = g.shiftChars
                    /\ r.currentDisplayChars = g.currentDisplayChars
                    /\ ~ReadsAstray(r),
     crossed |-> FALSE]

Crossing(open, yes) ==
    [i \in 1..Len(open) |-> [open[i] EXCEPT !.crossed = @ \/ yes]]
LastOnes(open) ==
    IF Len(open) > MaxTrip THEN SubSeq(open, 2, Len(open)) ELSE open

\* a scroll call; what lies past the end of ddram is found with any content
ScrollStep(name, after(_), t) ==
    \E j \in Junk :
        /\ ~grid.fault
        /\ Begun
        /\ j = grid.junk \/ ReadsAstray(after([Entered EXCEPT !.junk = j]))
        /\ grid' = after([Entered EXCEPT !.junk = j])
        /\ screen' = Painted(screen, grid'.log)
        /\ gridOp' = [name |-> name, a |-> 0, b |-> 0, found |-> Entered]
        /\ run' = run
        /\ trip' = t
        /\ UNCHANGED exceptGrid

scrollDisplayLeft_VGA ==
    ScrollStep("scrollDisplayLeft", Grid_scrollDisplayLeft,
               [open |-> LastOnes(Crossing(
                            IF gridOp.name = "scrollDisplayLeft"
                            THEN Append(trip.open, Viewport(Entered))
                            ELSE <<Viewport(Entered)>>,
                            Beyond(grid, grid.shiftChars + 1))),
                closed |-> <<>>])

scrollDisplayRight_VGA ==
    ScrollStep("scrollDisplayRight", Grid_scrollDisplayRight,
               IF trip.open = <<>> THEN NoTrip
               ELSE LET open == Crossing(trip.open, Beyond(grid, grid.shiftChars - 1))
                    IN [open |-> SubSeq(open, 1, Len(open) - 1),
                        closed |-> <<open[Len(open)]>>])

\* a custom character or a letter written at the start of either row segment
write_Glyph ==
    \E c \in GlyphChars :
        /\ grid.AC % 64 < MaxInk
        /\ GridStep("write", c, 0, Grid_write(Entered, c), -1)

setCursor_Row ==
    \E row \in {0, 1} :
        /\ InTable(grid, row)
        /\ GridStep("setCursor", 0, row, Grid_setCursor(Entered, 0, row, 0), -1)

scrollDisplayLeft_Few == grid.shiftChars < MaxShift /\ scrollDisplayLeft_VGA

MaxDark == 41

\* with the display off nothing resets the shift: it is followed up to MaxDark
scrollDisplayLeft_Dark ==
    /\ grid.shiftChars < MaxDark
    /\ ScrollStep("scrollDisplayLeft", Grid_scrollDisplayLeft, NoTrip)

scrollDisplayRight_Dark ==
    /\ grid.shiftChars > -MaxDark
    /\ ScrollStep("scrollDisplayRight", Grid_scrollDisplayRight, NoTrip)

noDisplay_VGA == ScrollStep("noDisplay", Grid_noDisplay, NoTrip)

display_VGA == ScrollStep("display", Grid_display, NoTrip)

autoscroll_VGA ==
    /\ ~grid.scroll_on
    /\ GridStep("autoscroll", 0, 0, [Entered EXCEPT !.scroll_on = TRUE], -1)

\* a character write that shifts the display
write_Scroll ==
    \E c \in GridChars :
        /\ grid.scroll_on
        /\ grid.AC < MaxInk
        /\ ScrollStep("write", LAMBDA g : Grid_write(g, c), NoTrip)

\* switching a written display off and on
NextPaint ==
    \/ begin_VGA
    \/ setCursor_Row
    \/ write_Glyph
    \/ noDisplay_VGA
    \/ display_VGA
    \/ scrollDisplayLeft_Few

MaxText == 42
MaxLeft == 26

\* begin(cols, lines), called once on the constructed object
begin_Once ==
    /\ ~Begun
    /\ begin_VGA

\* the text c0, c1, ... written from address 0 on: c(i) is the character 33 + i
write_Text ==
    /\ run >= 0 /\ run < MaxText
    /\ grid.shiftChars = 0
    /\ GridStep("write", 33 + run, 0, Grid_write(Entered, 33 + run), run + 1)

scrollDisplayLeft_Text ==
    /\ run >= 0
    /\ grid.shiftChars < MaxLeft
    /\ ScrollStep("scrollDisplayLeft", Grid_scrollDisplayLeft, NoTrip)

\* a text written from address 0 and then scrolled left
NextTextScroll ==
    \/ begin_Once
    \/ write_Text
    \/ scrollDisplayLeft_Text

\* the calls that move the rendered window
NextRender ==
    \/ begin_VGA
    \/ scrollDisplayLeft_Dark
    \/ scrollDisplayRight_Dark
    \/ noDisplay_VGA
    \/ display_VGA
    \/ autoscroll_VGA
    \/ write_Scroll

\* custom characters on a written and scrolled display
NextGlyph ==
    \/ begin_VGA
    \/ setCursor_Row
    \/ write_Glyph
    \/ createChar_VGA
    \/ home_VGA
    \/ scrollDisplayLeft_Few

\* scrolling over a written store
NextScroll ==
    \/ begin_VGA
    \/ write_Ink
    \/ home_VGA
    \/ scrollDisplayLeft_VGA
    \/ scrollDisplayRight_VGA

\* character writes in either direction, home and clear, after begin
NextWrites ==
    \/ begin_VGA
    \/ clear_VGA
    \/ home_VGA
    \/ write_VGA
    \/ leftToRight_VGA
    \/ rightToLeft_VGA

NextGrid ==
    \/ begin_VGA
    \/ clear_VGA
    \/ home_VGA
    \/ setCursor_VGA
    \/ write_VGA
    \/ leftToRight_VGA
    \/ rightToLeft_VGA
    \/ createChar_VGA

(***************************************************************************)
(* Software scrolling of HDMILiquidCrystal through the address/data port   *)
(* of the character RAM.  The port is as the comments of the scroll        *)
(* functions describe it: ADDR_HI/ADDR_LO set the RAM pointer, DATA_WR      *)
(* reads or writes the character at the pointer and advances it,            *)
(* ATTR_DATA reads or writes the attribute at the pointer.  charDev holds   *)
(* the RAM (cell y*80+x), the pointer and the two locals ch and attr of     *)
(* the copy loop; shiftOp names the call and keeps the RAM it found.        *)
(***************************************************************************)
TEXT_ROWS == 30
RamCells == 0..(TEXT_COLS * TEXT_ROWS - 1)
U16(v) == v % 65536
I8(v) == ((v + 128) % 256) - 128

PortW(reg, val) == [op |-> "w", reg |-> reg, val |-> val]
PortRch == [op |-> "rch", reg |-> REG_CHARRAM_DATA_WR, val |-> 0]
PortRattr == [op |-> "rattr", reg |-> REG_CHARRAM_ATTR_DATA, val |-> 0]
PortWch == [op |-> "wch", reg |-> REG_CHARRAM_DATA_WR, val |-> 0]
PortWattr == [op |-> "wattr", reg |-> REG_CHARRAM_ATTR_DATA, val |-> 0]

\* one access of the port at the device
RamStep(d, e) ==
    LET val == IF e.op = "wch" THEN d.ch ELSE IF e.op = "wattr" THEN d.attr ELSE e.val
        reads == e.op \in {"rch", "rattr"}
        here == d.ptr \in RamCells
    IN IF ~OnWire(IF reads THEN R8(e.reg) ELSE W8(e.reg, val)) THEN d
       ELSE IF reads
       THEN IF e.op = "rch"
            THEN [d EXCEPT !.ch = IF here THEN d.ram[d.ptr].ch ELSE 0,
                           !.ptr = U16(@ + 1)]
            ELSE [d EXCEPT !.attr = IF here THEN d.ram[d.ptr].attr ELSE 0]
       ELSE IF e.reg = REG_CHARRAM_ADDR_HI
            THEN [d EXCEPT !.ptr = val * 256 + (@ % 256)]
       ELSE IF e.reg = REG_CHARRAM_ADDR_LO
            THEN [d EXCEPT !.ptr = (@ \div 256) * 256 + val]
       ELSE IF e.reg = REG_CHARRAM_DATA_WR
            THEN [d EXCEPT !.ram = IF here THEN [@ EXCEPT ![d.ptr].ch = val] ELSE @,
                           !.ptr = U16(@ + 1),
                           !.stores = @ + 1]
       ELSE IF e.reg = REG_CHARRAM_ATTR_DATA
            THEN [d EXCEPT !.ram = IF here THEN [@ EXCEPT ![d.ptr].attr = val] ELSE @,
                           !.stores = @ + 1]
       ELSE d

\* the accesses prog[lo..hi], in program order
RECURSIVE RamRun(_, _, _, _)
RamRun(dev, prog, lo, hi) ==
    IF lo > hi THEN dev
    ELSE IF lo = hi THEN RamStep(dev, prog[lo])
    ELSE LET mid == (lo + hi) \div 2
         IN CHOOSE r \in {RamRun(d, prog, mid + 1, hi) :
                              d \in {RamRun(dev, prog, lo, mid)}} : TRUE

SetAddr(addr) ==
    << PortW(REG_CHARRAM_ADDR_HI, (addr \div 256) % 256),
       PortW(REG_CHARRAM_ADDR_LO, addr % 256) >>

\* character and attribute of cell srcAddr copied to cell dstAddr
CopyCell(srcAddr, dstAddr) ==
    SetAddr(srcAddr) \o << PortRch >> \o SetAddr(srcAddr) \o << PortRattr >>
    \o SetAddr(dstAddr) \o << PortWch >> \o SetAddr(dstAddr) \o << PortWattr >>

\* a space with the current attribute put in cell addr
FillCell(addr, currentAttr) ==
    SetAddr(addr) \o << PortW(REG_CHARRAM_DATA_WR, BLANK) >>
    \o SetAddr(addr) \o << PortW(REG_CHARRAM_ATTR_DATA, currentAttr) >>

LCD_scrollDisplayLeft(cols, rows, offX, currentAttr) ==
    AllOf([r \in 1..rows |->
        LET rowStart == U16((r - 1) * 80)
        IN AllOf([c \in 1..(IF cols > 1 THEN cols - 1 ELSE 0) |->
                    CopyCell(U16(rowStart + offX + (c - 1) + 1),
                             U16(rowStart + offX + (c - 1)))])
           \o FillCell(U16(rowStart + offX + cols - 1), currentAttr)])

LCD_scrollDisplayRight(cols, rows, offX, currentAttr) ==
    AllOf([r \in 1..rows |->
        LET rowStart == U16((r - 1) * 80)
            first == I8(cols - 1)
        IN AllOf([c \in 1..(IF first > 0 THEN first ELSE 0) |->
                    CopyCell(U16(rowStart + offX + (first - c + 1) - 1),
                             U16(rowStart + offX + (first - c + 1)))])
           \o FillCell(U16(rowStart + offX), currentAttr)])

\* inputs: what the window cells hold, and the attribute of the fill
RamLetters == {65, 66}
CurrentAttrs == {15, 30}
InWindow(a) ==
    /\ a % TEXT_COLS >= _displayOffsetX
    /\ a % TEXT_COLS < _displayOffsetX + _cols
    /\ a \div TEXT_COLS >= _displayOffsetY
    /\ a \div TEXT_COLS < _displayOffsetY + _rows

NoShiftOp == [name |-> "none", found |-> <<>>, fault |-> FALSE]

IdleRam ==
    /\ charDev = [ram |-> <<>>, ptr |-> 0, ch |-> 0, attr |-> 0, stores |-> 0]
    /\ shiftOp = NoShiftOp

InitRam ==
    /\ \E held \in [0..(_cols * _rows - 1) -> RamLetters] :
        charDev = [ram |-> [a \in RamCells |->
                              IF InWindow(a)
                              THEN [ch |-> held[((a \div TEXT_COLS) - _displayOffsetY) * _cols
                                                + ((a % TEXT_COLS) - _displayOffsetX)],
                                    attr |-> HDMI_COLOR_WHITE]
                              ELSE [ch |-> BLANK, attr |-> HDMI_COLOR_WHITE]],
                   ptr |-> 0, ch |-> 0, attr |-> 0, stores |-> 0]
    /\ shiftOp = NoShiftOp

\* a scroll call: through a null _hdmi it ends the program at its first access
ShiftStep(name, prog) ==
    /\ ~shiftOp.fault
    /\ \E p \in {prog} :
        /\ charDev' = IF _hdmi = "NULL" THEN charDev
                      ELSE RamRun([charDev EXCEPT !.stores = 0], p, 1, Len(p))
        /\ shiftOp' = [name |-> name, found |-> charDev.ram,
                       fault |-> _hdmi = "NULL" /\ p # <<>>]
    /\ UNCHANGED exceptRam

scrollDisplayLeft_LCD ==
    \E currentAttr \in CurrentAttrs :
        ShiftStep("scrollDisplayLeft",
                  LCD_scrollDisplayLeft(_cols, _rows, _displayOffsetX, currentAttr))

scrollDisplayRight_LCD ==
    \E currentAttr \in CurrentAttrs :
        ShiftStep("scrollDisplayRight",
                  LCD_scrollDisplayRight(_cols, _rows, _displayOffsetX, currentAttr))

NextShift ==
    \/ scrollDisplayLeft_LCD
    \/ scrollDisplayRight_LCD

\* a RAM whose neighbouring cells all differ
InitPattern ==
    /\ charDev = [ram |-> [a \in RamCells |->
                             [ch |-> 40 + (a % 7) + 7 * ((a \div TEXT_COLS) % 4),
                              attr |-> 1 + (a % 5)]],
                  ptr |-> 0, ch |-> 0, attr |-> 0, stores |-> 0]
    /\ shiftOp = NoShiftOp

MaxScrollUp == 1

\* write('\n'), which moves the window down once the cursor is in its last row
newline_LCD ==
    /\ _displayOffsetY < MaxScrollUp
    /\ LcdStep("write", 10, 0, LCD_write(10))
    /\ UNCHANGED <<_cols, _rows, begun, _displayOn, _leftToRight, _autoscroll>>

\* every public call of the windowed emulator
NextNull ==
    \/ begin_LCD
    \/ clear_LCD
    \/ home_LCD
    \/ setCursor_LCD
    \/ write_LCD
    \/ print_LCD
    \/ noDisplay_LCD
    \/ display_LCD
    \/ noCursor_LCD
    \/ cursor_LCD
    \/ noBlink_LCD
    \/ blink_LCD
    \/ setColor_LCD
    \/ scrollDisplayLeft_LCD
    \/ scrollDisplayRight_LCD

\* scrolling a window that autoscroll may have moved
NextWindow ==
    \/ autoscroll
    \/ newline_LCD
    \/ scrollDisplayLeft_LCD
    \/ scrollDisplayRight_LCD

\* <<x0, y0, x1, y1, x2, y2>>: general in several orders, flat top, flat
\* bottom, one scanline, one point, one column, a thin sliver
TriArgs ==
    {<<2, 1, 6, 3, 0, 5>>, <<0, 5, 6, 3, 2, 1>>, <<6, 3, 0, 5, 2, 1>>,
     <<1, 1, 5, 1, 3, 4>>, <<3, 0, 0, 4, 6, 4>>, <<4, 2, 1, 2, 7, 2>>,
     <<3, 3, 3, 3, 3, 3>>, <<2, 0, 2, 3, 2, 6>>, <<0, 0, 9, 1, 1, 7>>,
     <<159, 119, 150, 110, 155, 100>>, <<5, 2, 5, 2, 1, 6>>, <<0, 0, 3, 3, 6, 6>>}

FillTriangle ==
    \E p \in TriArgs :
        /\ Step(Op1("fillTriangle", p),
                fillTriangle(p[1], p[2], p[3], p[4], p[5], p[6], TFT_RED), TRUE)
        /\ UNCHANGED textVars

\* a 5-6-5 colour of every 3-3-2 byte, with the bits the conversion drops set
ColorOfByte(v) ==
    (((v \div 32) % 8) * 4 + 3) * 2048 + (((v \div 4) % 8) * 8 + 7) * 32 + (v % 4) * 8 + 7

\* one pixel of the mirror as constructed is painted
PaintCell ==
    \E v \in 0..255 :
        /\ frameBuffer = Blank(0)
        /\ Step(Op3("drawPixel", 3, 2, ColorOfByte(v)), drawPixel(3, 2, ColorOfByte(v)), TRUE)
        /\ UNCHANGED textVars

\* drawPixel(x, y, readPixel(x, y))
ReadBack ==
    \E p \in {<<3, 2>>, <<0, 0>>, <<159, 119>>, <<160, 2>>} :
        /\ Step(Op3("readBack", p[1], p[2], readPixel(p[1], p[2])),
                drawPixel(p[1], p[2], readPixel(p[1], p[2])), TRUE)
        /\ UNCHANGED textVars

\* pixels painted and written back
NextReadBack ==
    \/ TFT_begin
    \/ startBuffered
    \/ endBuffered
    \/ PaintCell
    \/ ReadBack

\* filled triangles
NextTriangle ==
    \/ TFT_begin
    \/ startBuffered
    \/ endBuffered
    \/ FillTriangle

\* <<x0, y0, r, color>>
CircleArgs ==
    {<<80, 60, 30, color332(255, 0, 0)>>, <<80, 60, 30, TFT_RED>>,
     <<5, 5, 3, TFT_RED>>, <<9, 9, 0, TFT_RED>>, <<1, 1, 1, TFT_RED>>,
     <<150, 110, 9, TFT_RED>>}

DrawCircle ==
    \E p \in CircleArgs :
        /\ Step(Op4("drawCircle", p[1], p[2], p[3], p[4]),
                drawCircle(p[1], p[2], p[3], p[4]), TRUE)
        /\ UNCHANGED textVars

\* fillScreen(color332(0, 0, 0))
FillBlack ==
    /\ Step(Op1("fillScreen", color332(0, 0, 0)), fillScreen(color332(0, 0, 0)), TRUE)
    /\ UNCHANGED textVars

\* the shapes built on drawPixel and the fast lines
NextShapes ==
    \/ TFT_begin
    \/ startBuffered
    \/ endBuffered
    \/ FillBlack
    \/ DrawLine
    \/ DrawCircle

(***************************************************************************)
(* Specifications                                                          *)
(***************************************************************************)
\* the parts a specification does not exercise stay as constructed
IdleTFT == InitTFT({"VGA"}, {0})
IdleBus == InitBus({TRUE}) /\ _spi = "SPI"
IdleConv == conv = NoConv
IdleLCD == InitLCD({"HDMI"}) /\ cursorReg.x = 0 /\ cursorReg.y = 0
IdleGrid == InitGrid /\ grid.junk = 0

\* Register transport, single logical owner: the callers take turns
Init == InitBus({TRUE}) /\ IdleTFT /\ IdleConv /\ IdleLCD /\ IdleGrid /\ IdleRam
Next == NextBus
Spec == Init /\ [][Next]_vars

\* Register transport, two callers, with or without an external lock
InitShared == InitBus(BOOLEAN) /\ IdleTFT /\ IdleConv /\ IdleLCD /\ IdleGrid /\ IdleRam
SpecShared == InitShared /\ [][Next]_vars

\* Framebuffer engine, after the default constructor
InitFB == IdleBus /\ InitTFT({"NULL"}, {0}) /\ IdleConv /\ IdleLCD /\ IdleGrid /\ IdleRam
SpecFB == InitFB /\ [][NextFB]_vars

\* Framebuffer engine: lines and shapes
SpecShapes == InitFB /\ [][NextShapes]_vars

\* Framebuffer engine: filled triangles
SpecTriangle == InitFB /\ [][NextTriangle]_vars

\* Framebuffer engine: pixels read and drawn back
SpecReadBack == InitFB /\ [][NextReadBack]_vars

\* Colour converters applied to inputs drawn from Colors565 and Channel8
InitColor == IdleBus /\ IdleTFT /\ InitConv /\ IdleLCD /\ IdleGrid /\ IdleRam
SpecColor == InitColor /\ [][NextConv]_vars

\* Every colour converter applied to every 16-bit colour and to the channel edges
InitAgree == IdleBus /\ IdleTFT /\ InitConvAll /\ IdleLCD /\ IdleGrid /\ IdleRam
SpecAgree == InitAgree /\ [][NextConvAll]_vars

\* The windowed emulator on a device whose cursor is anywhere at first
InitEmu == IdleBus /\ IdleTFT /\ IdleConv /\ InitLCD({"NULL", "HDMI"}) /\ IdleGrid /\ IdleRam
SpecLCD == InitEmu /\ [][NextLCD]_vars

\* The windowed emulator constructed without a controller
InitNull == IdleBus /\ IdleTFT /\ IdleConv /\ InitLCD({"NULL"}) /\ IdleGrid /\ IdleRam
SpecNull == InitNull /\ [][NextNull]_vars

\* The controller's text calls alone
InitText == IdleBus /\ IdleTFT /\ IdleConv /\ InitLCD({"HDMI"}) /\ IdleGrid /\ IdleRam
SpecText == InitText /\ [][NextText]_vars

\* The virtual grid: address counter, cursor and glyph calls on a
\* zero-initialised object
InitVGA == IdleBus /\ IdleTFT /\ IdleConv /\ IdleLCD /\ IdleGrid /\ IdleRam
SpecGrid == InitVGA /\ [][NextGrid]_vars

\* Software scrolling of the windowed emulator over a written character RAM
InitShift == IdleBus /\ IdleTFT /\ IdleConv /\ IdleLCD /\ IdleGrid /\ InitRam
SpecShift == InitShift /\ [][NextShift]_vars

\* Software scrolling of a window that newlines under autoscroll move down
InitWindow == IdleBus /\ IdleTFT /\ IdleConv /\ IdleLCD /\ IdleGrid /\ InitPattern
SpecWindow == InitWindow /\ [][NextWindow]_vars

\* The virtual grid with custom characters on screen
SpecGlyph == InitVGA /\ [][NextGlyph]_vars

\* The virtual grid under scrolling
SpecScroll == InitVGA /\ [][NextScroll]_vars

\* The virtual grid and what is on the screen
InitPaint ==
    IdleBus /\ IdleTFT /\ IdleConv /\ IdleLCD /\ IdleRam /\ InitGridOn(NeverDrawn) /\ grid.junk = 0
SpecPaint == InitPaint /\ [][NextPaint]_vars

\* The virtual grid with a text scrolled over the screen
SpecTextScroll == InitPaint /\ [][NextTextScroll]_vars

\* The virtual grid under scrolling, display switching and autoscroll
SpecRender == InitVGA /\ [][NextRender]_vars

\* The virtual grid under character writes, home and clear alone
SpecWrites == InitVGA /\ [][NextWrites]_vars

(***************************************************************************)
(* Register bus transport: properties                                      *)
(***************************************************************************)
IsWrite(tx) == tx.kind \in {"W8", "W32"}
Width(tx) == IF tx.kind \in {"W8", "R8"} THEN 1 ELSE 4
Outs(f) == [i \in 1..Len(f) |-> f[i].out]
Ins(f) == [i \in 1..Len(f) |-> f[i].in]
NoTxInFlight == \A c \in Ctx : ctx[c].tx = NoTx

\* the bytes of v, most significant first, n of them
MsbFirst(v, n) == [i \in 1..n |-> ByteAt(v, 8 * (n - i))]
\* the unsigned value of a byte sequence read most significant first
RECURSIVE FromMsbFirst(_)
FromMsbFirst(bs) ==
    IF bs = <<>> THEN 0
    ELSE FromMsbFirst(SubSeq(bs, 1, Len(bs) - 1)) * 256 + bs[Len(bs)]

AnyByteOf(v) == { ByteAt(v, 0), ByteAt(v, 8), ByteAt(v, 16), ByteAt(v, 24) }

\* C1: every transaction that ran left a frame that starts with its command
\* byte (1 write, 2 read), continues with bytes of the address and ends with
\* the data bytes (written, or zero dummies whose answers make up the value
\* returned), all of it inside one device-select window; no byte is ever
\* transferred with device-select not low; and device-select is high whenever
\* no transaction is in progress once begin() or a transaction has driven it.
C1_Framing ==
    /\ \A i \in 1..Len(frame) : frame[i].cs = "LOW"
    /\ (NoTxInFlight /\ csPin # "Z") => csPin = "HIGH"
    /\ lastTx.ran =>
         LET f == lastTx.frame
             tx == lastTx.tx
             n == Width(tx)
         IN /\ Len(f) >= 1 + 1 + n
            /\ \A i \in 1..Len(f) : f[i].cs = "LOW" /\ f[i].by = lastTx.by
            /\ f[1].out = (IF IsWrite(tx) THEN 1 ELSE 2)
            /\ \A i \in 2..(Len(f) - n) : f[i].out \in AnyByteOf(tx.address)
            /\ \A i \in (Len(f) - n + 1)..Len(f) :
                 IF IsWrite(tx) THEN f[i].out \in AnyByteOf(tx.data)
                 ELSE f[i].out = 0 /\ f[i].in \in AnyByteOf(lastTx.data)
            /\ IsWrite(tx) => lastTx.data = 0

C1_Witness ==
    /\ lastTx.ran
    /\ lastTx.tx.kind = "R32"
    /\ Len(lastTx.frame) = 9
    /\ lastTx.data # 0
    /\ csPin = "HIGH"

\* C2: every write transaction runs with clock phase 0 and every read
\* transaction with clock phase 1, in the 8-bit and in the 32-bit form.
C2_ClockPhase ==
    lastTx.ran =>
        \A i \in 1..Len(lastTx.frame) :
            lastTx.frame[i].mode = (IF IsWrite(lastTx.tx) THEN 0 ELSE 1)

\* C3: a frame is the command byte, then the address most significant byte
\* first in exactly 1 (8-bit form) or 4 (32-bit form) bytes, then as many data
\* bytes most significant first; a read returns the captured bytes assembled
\* most significant first.
C3_ByteOrder ==
    lastTx.ran =>
        LET f == lastTx.frame
            tx == lastTx.tx
            n == Width(tx)
        IN /\ Len(f) = 1 + n + n
           /\ SubSeq(Outs(f), 2, 1 + n) = MsbFirst(tx.address, n)
           /\ IsWrite(tx) => SubSeq(Outs(f), 2 + n, 1 + n + n) = MsbFirst(tx.data, n)
           /\ ~IsWrite(tx) =>
                lastTx.data = FromMsbFirst(SubSeq(Ins(f), 2 + n, 1 + n + n))

\* C4: with no transport handle nothing reaches the bus: no byte is
\* transferred, device-select and the clock mode are never touched, every
\* register transaction returns at once with 0 and every public call returns 0.
C4_NullHandle ==
    _spi = "NULL" =>
        /\ frame = <<>> /\ lastFrame = <<>>
        /\ csPin = "Z" /\ ~csOutput /\ spiMode = -1
        /\ \A c \in Ctx : ctx[c].tx = NoTx /\ ctx[c].data = 0
        /\ ~lastTx.ran /\ lastTx.data = 0
        /\ result.val = 0

C4_Witness ==
    /\ _spi = "NULL"
    /\ result.name = "println"
    /\ lastTx.tx = W8(REG_CHARRAM_CURSOR_Y, 1)

\* Register map of HDMIController.h
LedBank == { REG_LED_GREEN, REG_LED_RED, REG_LED_BLUE, REG_LED_CTRL }
VideoBank == { REG_VIDEO_MODE, REG_VIDEO_PATTERN, REG_VIDEO_STATUS }
CharRamBank ==
    { REG_CHARRAM_CONTROL, REG_CHARRAM_CURSOR_X, REG_CHARRAM_CURSOR_Y,
      REG_CHARRAM_ATTR, REG_CHARRAM_CHAR, REG_CHARRAM_ATTR_WR,
      REG_CHARRAM_ADDR_HI, REG_CHARRAM_ADDR_LO, REG_CHARRAM_DATA_WR,
      REG_CHARRAM_ATTR_DATA, REG_CHARRAM_FONT_ADDR, REG_CHARRAM_FONT_DATA }
FramebufferBank == FB_BASE_ADDR .. (FB_BASE_ADDR + FB_WIDTH * FB_HEIGHT - 1)
Registers == LedBank \cup VideoBank \cup CharRamBank \cup { FB_BASE_ADDR }

\* address bytes of an 8-bit frame: what lies between command and data byte
AddressBytes(outs) == SubSeq(outs, 2, Len(outs) - 1)
\* bytes a program transfers
RECURSIVE ProgOuts(_)
ProgOuts(prog) ==
    IF prog = <<>> THEN <<>>
    ELSE (IF Head(prog).op = "transfer" THEN << Head(prog).out >> ELSE <<>>)
         \o ProgOuts(Tail(prog))

\* C5: the banks are pairwise disjoint, and the address bytes an 8-bit
\* transaction puts on the bus for a register are those of no other register.
C5_DisjointBanks ==
    /\ LedBank \cap VideoBank = {}
    /\ LedBank \cap CharRamBank = {}
    /\ LedBank \cap FramebufferBank = {}
    /\ VideoBank \cap CharRamBank = {}
    /\ VideoBank \cap FramebufferBank = {}
    /\ CharRamBank \cap FramebufferBank = {}
    /\ (lastTx.ran /\ Width(lastTx.tx) = 1) =>
         \A r \in Registers \ { lastTx.tx.address } :
             AddressBytes(ProgOuts(Prog([lastTx.tx EXCEPT !.address = r])))
                 # AddressBytes(Outs(lastTx.frame))

\* C6: callers that take turns never overlap frames ...
C6_SerializedNoOverlap == locked => ~corrupt

\* ... while without a lock a byte of one caller's frame is emitted inside
\* the device-select window of the other
C6_Witness ==
    /\ ~locked
    /\ corrupt
    /\ \E c \in Ctx : /\ ctx[c].tx # NoTx
                      /\ ctx[c].pc >= 4
                      /\ frameBy \notin {0, c}

(***************************************************************************)
(* Framebuffer engine: properties                                          *)
(***************************************************************************)
OutOfBounds(x, y) ==
    x < 0 \/ x >= HQVGA_WIDTH \/ y < 0 \/ y >= HQVGA_HEIGHT

\* a step that is one call of an operation of the given names
Called(names) == nOps' = nOps + 1 /\ lastOp'.name \in names

MemEntries(es) == {es[k] : k \in {j \in DOMAIN es : es[j].k = "mem"}}
PutEntries(es) == {es[k] : k \in {j \in DOMAIN es : es[j].k = "put"}}
DevEntries(es) == {es[k] : k \in {j \in DOMAIN es : es[j].k \in DevKinds}}

\* C7: a drawPixel/setPixel call whose coordinates lie outside the
\* framebuffer changes no cell of the local mirror and issues no device
\* transaction, in immediate and in buffered mode alike (HQVGA_TFT::drawPixel
\* and HQVGA_GFX::drawPixel)
C7_OutOfBoundsPixel ==
    [][(Called({"drawPixel", "GFX_drawPixel"})
          /\ OutOfBounds(lastOp'.a, lastOp'.b))
       => (frameBuffer' = frameBuffer /\ device' = device /\ log' = <<>>
             /\ ~fault')]_vars

\* an out-of-bounds drawPixel has been called on a picture already drawn
\* to, in immediate mode with the device attached
C7_Witness ==
    /\ lastOp.name = "drawPixel"
    /\ lastOp.a = 160 /\ lastOp.b = 119
    /\ nOps = 2
    /\ _vga = "VGA" /\ ~_buffered
    /\ frameBuffer # Blank(0)

\* the cells of the mirror that the stores of es write
Written(es) == UNION {e.x .. (e.x + e.n - 1) : e \in MemEntries(es)}

\* the requested span or rectangle of a run-fill call, cut to the
\* framebuffer, as mirror indices
Requested(op) ==
    LET xs == CASE op.name = "drawFastHLine" -> op.a .. (op.a + op.c - 1)
                [] op.name = "drawFastVLine" -> {op.a}
                [] op.name = "fillRect" -> op.a .. (op.a + op.c - 1)
        ys == CASE op.name = "drawFastHLine" -> {op.b}
                [] op.name = "drawFastVLine" -> op.b .. (op.b + op.c - 1)
                [] op.name = "fillRect" -> op.b .. (op.b + op.d - 1)
    IN {y * HQVGA_WIDTH + x : x \in xs \cap (0 .. (HQVGA_WIDTH - 1)),
                              y \in ys \cap (0 .. (HQVGA_HEIGHT - 1))}

\* every store of the last call lies inside the mirror array and every
\* device write inside the picture
InsideOnly ==
    /\ \A e \in MemEntries(log) :
           e.x >= 0 /\ e.x + e.n <= HQVGA_FRAMEBUFFER_SIZE
    /\ \A e \in {d \in DevEntries(log) : d.k \in {"put", "cpy"}} :
           /\ e.x >= 0 /\ e.x + e.n <= HQVGA_WIDTH
           /\ e.y >= 0 /\ e.y < HQVGA_HEIGHT

\* C8: for arbitrary signed coordinates every primitive writes only mirror
\* indices in [0, width*height) and device pixels in bounds, and for the
\* run-fill primitives (drawFastHLine, drawFastVLine, fillRect) the set of
\* pixels changed is exactly the intersection of the requested span or
\* rectangle with the framebuffer rectangle
C8_ClipExact ==
    /\ InsideOnly
    /\ lastOp.name \in {"drawFastHLine", "drawFastVLine", "fillRect"}
         => Written(log) = Requested(lastOp)

\* the cells <<x, y, colour>> stored to the mirror / written to the device
\* by the entries es; <<-1, -1, colour>> stands for every cell
MemCells(es) ==
    UNION {IF e.n = HQVGA_FRAMEBUFFER_SIZE THEN {<<-1, -1, e.c>>}
           ELSE {<<i % HQVGA_WIDTH, i \div HQVGA_WIDTH, e.c>> :
                     i \in e.x .. (e.x + e.n - 1)} : e \in MemEntries(es)}
PutCells(es) ==
    UNION {IF e.k = "putAll" THEN {<<-1, -1, e.c>>}
           ELSE {<<e.x + i, e.y, e.c>> : i \in 0 .. (e.n - 1)} :
               e \in {d \in DevEntries(es) : d.k \in {"put", "putAll"}}}

DrawOps ==
    {"drawPixel", "fillScreen", "drawFastHLine", "drawFastVLine", "fillRect",
     "pushImage332", "print"}

\* C9: in immediate mode every store to the local mirror made by a drawing
\* operation that completes is accompanied by a device pixel write to the
\* same coordinate with the same value, so a mirror equal to the device
\* picture before the operation is equal to it after
C9_ImmediateMirrored ==
    [][(Called(DrawOps) /\ ~_buffered /\ ~fault')
       => (/\ MemCells(log') \subseteq PutCells(log')
           /\ frameBuffer = device => frameBuffer' = device')]_vars

\* a character was printed in immediate mode onto a picture already drawn
\* to: it stored to the mirror and wrote the device, and the two agree
C9_Witness ==
    /\ ~fault /\ ~_buffered
    /\ lastOp.name = "print"
    /\ MemEntries(log) # {} /\ PutEntries(log) # {}
    /\ Written(log) \cap DOMAIN frameBuffer.px # {}
    /\ \E i \in DOMAIN frameBuffer.px : i \notin Written(log)
    /\ frameBuffer = device

\* C10: while buffered mode is on no drawing operation issues a device
\* pixel transaction and the device picture stays as it was; switching the
\* mode on or off transfers nothing and leaves the mirror unchanged, so a
\* difference between mirror and device outlives the switch
C10_BufferedNoDevice ==
    [][/\ (nOps' = nOps + 1 /\ _buffered
             /\ lastOp'.name \notin {"syncBuffer", "syncRegion", "GFX_drawPixel"})
          => (DevEntries(log') = {} /\ device' = device)
       /\ (_buffered' # _buffered)
          => (/\ frameBuffer' = frameBuffer /\ device' = device
              /\ log' = log /\ nOps' = nOps
              /\ (frameBuffer # device) => (frameBuffer' # device'))]_vars

\* a rectangle was filled in buffered mode, buffered mode was left, and the
\* mirror still differs from the device picture
C10_Witness ==
    /\ ~fault /\ ~_buffered /\ _vga = "VGA"
    /\ lastOp.name = "fillRect"
    /\ MemEntries(log) # {} /\ DevEntries(log) = {}
    /\ frameBuffer # device

\* the device cells that the copies of es write, as mirror indices
Copied(es) ==
    UNION {(e.y * HQVGA_WIDTH + e.x) .. (e.y * HQVGA_WIDTH + e.x + e.n - 1) :
               e \in {d \in DevEntries(es) : d.k = "cpy"}}

\* the rectangle of a syncRegion call cut to the framebuffer, as indices
Region(op) ==
    {y * HQVGA_WIDTH + x :
         x \in (op.a .. (op.a + op.c - 1)) \cap (0 .. (HQVGA_WIDTH - 1)),
         y \in (op.b .. (op.b + op.d - 1)) \cap (0 .. (HQVGA_HEIGHT - 1))}

\* the copies of es run through the rows top to bottom, one run per row
RowMajor(es) ==
    \A j, k \in DOMAIN es : j < k => es[j].y < es[k].y

\* C11: syncBuffer issues one device pixel write per mirror pixel in
\* row-major order, after which the device picture equals the mirror;
\* syncRegion(x, y, w, h) does the same for the rectangle cut to the
\* framebuffer, writes no device pixel outside it and nothing at all when
\* it is empty; neither stores to the mirror
C11_SyncExact ==
    /\ (lastOp.name = "syncBuffer" /\ ~fault)
         => (log = <<CpyAll>> /\ device = frameBuffer)
    /\ (lastOp.name = "syncRegion" /\ ~fault)
         => (/\ MemEntries(log) = {}
             /\ RowMajor(log)
             /\ Copied(log) = Region(lastOp)
             /\ \A i \in Region(lastOp) : Get(device, i) = Get(frameBuffer, i))

\* the parts of C11 that hold: syncBuffer, and for syncRegion that the
\* mirror is kept, the rectangle cut to the framebuffer is copied in row
\* order and the device agrees with the mirror on it
C11_SyncCovers ==
    /\ (lastOp.name = "syncBuffer" /\ ~fault)
         => (log = <<CpyAll>> /\ device = frameBuffer)
    /\ (lastOp.name = "syncRegion" /\ ~fault)
         => (/\ MemEntries(log) = {}
             /\ RowMajor(log)
             /\ Region(lastOp) \subseteq Copied(log)
             /\ \A i \in Copied(log) : Get(device, i) = Get(frameBuffer, i))

(***************************************************************************)
(* Colour converters: properties                                           *)
(***************************************************************************)
\* C12: conversion to 3-3-2 is deterministic and idempotent: a value that
\* is already a 3-3-2 byte, passed through the same conversion again,
\* comes out as the identical byte
C12_Idempotent == conv.fed # -1 => conv.out = conv.fed

\* got is the top keep bits of the bits-wide channel value ch: the value
\* cut off below, never rounded up
TopBits(ch, bits, keep, got) ==
    /\ got * (2 ^ (bits - keep)) <= ch
    /\ ch < (got + 1) * (2 ^ (bits - keep))

\* the fields RRR GGG BB of a 3-3-2 byte
Red3(byte) == byte \div 32
Green3(byte) == (byte \div 4) % 8
Blue2(byte) == byte % 4

\* C13: conversion to 3-3-2 truncates and never rounds: the result is
\* RRRGGGBB with RRR and GGG the top 3 bits of the red and green input
\* channels and BB the top 2 bits of blue, for 5-6-5 and for 8-8-8 inputs;
\* so inputs that differ only below those bits give the same byte
C13_Truncates ==
    /\ (conv.fn \in {"color565to332", "rgb565to332"} /\ conv.fed = -1)
         => (/\ conv.out \in 0 .. 255
             /\ TopBits(conv.c \div 2048, 5, 3, Red3(conv.out))
             /\ TopBits((conv.c \div 32) % 64, 6, 3, Green3(conv.out))
             /\ TopBits(conv.c % 32, 5, 2, Blue2(conv.out))
             /\ \E d \in {-1, 1} :
                    /\ conv.c + d \in 0 .. 65535
                    /\ color565to332(conv.c + d) = conv.out
                    /\ rgb565to332(conv.c + d) = conv.out)
    /\ conv.fn \in {"color332", "GFX_color332", "rgb888to332"}
         => (/\ conv.out \in 0 .. 255
             /\ TopBits(conv.r, 8, 3, Red3(conv.out))
             /\ TopBits(conv.g, 8, 3, Green3(conv.out))
             /\ TopBits(conv.b, 8, 2, Blue2(conv.out))
             /\ \E d \in {-1, 1} :
                    /\ conv.r + d \in 0 .. 255
                    /\ color332(conv.r + d, conv.g, conv.b) = conv.out
                    /\ GFX_color332(conv.r + d, conv.g, conv.b) = conv.out
                    /\ rgb888to332(conv.r + d, conv.g, conv.b) = conv.out)

\* a 5-6-5 colour whose three channels all lie just under the next 3-3-2
\* step (red 3 of 31, green 7 of 63, blue 7 of 31) was converted to 0
C13_Witness ==
    /\ conv.fn = "color565to332"
    /\ conv.c = 3 * 2048 + 7 * 32 + 7
    /\ conv.out = 0


(***************************************************************************)
(* Device-backed text mode: properties                                     *)
(***************************************************************************)
\* the emulator's write(c) has just run with a device behind it
Wrote(c) == lcdOp.name = "write" /\ lcdOp.a = c /\ lcdOp.ret = 1
\* the row a newline leads to from row, on a grid of rows rows
RowAfterNewline(row, rows) == IF row < rows - 1 THEN row + 1 ELSE 0

\* C14 (controller part): HDMIController::writeChar('\n') leaves the device
\* cursor at column 0 of the next row, or of row 0 from the last row (29).
C14_ControllerNewline ==
    (lcdOp.name = "HDMI.writeChar" /\ lcdOp.a = 10) =>
        /\ cursorReg.x = 0
        /\ cursorReg.y = RowAfterNewline(lcdLog[1].y, 30)

\* C14: writing a newline moves the cursor to column 0 of the next row, or
\* to column 0 of row 0 when the cursor is on the last row, and never
\* changes the window offset.
C14_NewlineWraps ==
    /\ C14_ControllerNewline
    /\ Wrote(10) =>
        /\ _cursorCol = 0
        /\ _cursorRow = RowAfterNewline(lcdOp.row, lcdOp.rows)
        /\ _displayOffsetY = lcdOp.offY


\* the character-register writes among the transactions of the last call
CharWrites ==
    {i \in 1..Len(lcdLog) : lcdLog[i].kind = "W8" /\ lcdLog[i].reg = REG_CHARRAM_CHAR}
Printable(c) == c >= 32 /\ c <= 126

\* C15: every printable character written through the emulator, once begin()
\* has run, is stored at device cell (offsetX + col, offsetY + row) for the
\* cursor (col, row) that write found, and the device cursor had been put
\* there by a cursor-set transaction.
C15_LandsAtCursor ==
    (begun /\ lcdOp.name = "write" /\ Printable(lcdOp.a) /\ lcdOp.ret = 1) =>
        /\ Cardinality(CharWrites) = 1
        /\ \A i \in CharWrites :
            /\ lcdLog[i].val = lcdOp.a
            /\ lcdLog[i].x = lcdOp.offX + lcdOp.col
            /\ lcdLog[i].y = lcdOp.offY + lcdOp.row
            /\ lcdLog[i].by = "set"


\* the device cells of the window the last call found
Window(op) ==
    {<<op.offX + c, op.offY + r>> : c \in 0..(op.cols - 1), r \in 0..(op.rows - 1)}
\* the device cells the last call stored a character in
Stored == {<<lcdLog[i].x, lcdLog[i].y>> : i \in CharWrites}

\* C16: clear() writes a blank to each of the cols * rows cells of the window
\* and to no other cell, then leaves the cursor at (0, 0) and the device
\* cursor at the window origin.
C16_ClearWindow ==
    (begun /\ lcdOp.name = "clear" /\ _hdmi # "NULL") =>
        /\ Stored = Window(lcdOp)
        /\ Cardinality(CharWrites) = lcdOp.cols * lcdOp.rows
        /\ \A i \in CharWrites : lcdLog[i].val = 32
        /\ _cursorCol = 0
        /\ _cursorRow = 0
        /\ cursorReg.x = lcdOp.offX
        /\ cursorReg.y = lcdOp.offY


(***************************************************************************)
(* Virtual grid: properties                                                *)
(***************************************************************************)
Events(kind) == {i \in 1..Len(grid.log) : grid.log[i].k = kind}

\* C17 (windowed emulator part): HDMILiquidCrystal::setCursor with any
\* column and row leaves the cursor inside the window.
C17_WindowClamped ==
    lcdOp.name = "setCursor" => _cursorCol < _cols /\ _cursorRow < _rows

\* C17 (glyph part): createChar uses only the low 3 bits of the location; it
\* rewrites the 8 bytes of slot (location mod 8) and nothing else.
C17_SlotMasked ==
    gridOp.name = "createChar" =>
        {grid.log[i].at : i \in Events("glyph")}
            = {(gridOp.a % 8) * 8 + n : n \in 0..7}

\* C17: createChar masks the location to a slot 0..7, and setCursor with any
\* column and row leaves the cursor (the address counter AC of the virtual
\* grid) on a valid cell of the character store and reads no table entry
\* outside the table.
C17_ClampedOrMasked ==
    /\ C17_WindowClamped
    /\ C17_SlotMasked
    /\ gridOp.name = "setCursor" =>
        /\ grid.AC < DDRAM_SIZE
        /\ \A i \in Events("table") : grid.log[i].at < Len(ROW_OFFSETS)


\* the single-row layout is the one write() applies when _lines is 0
SingleRow == Begun /\ grid._lines = 0

\* C18: in single-row mode, N characters written one after the other from
\* address 0 with increment +1 leave AC = N mod 80.
C18_AdvanceModCapacity ==
    (SingleRow /\ run >= 0) => grid.AC = run % 80

\* 81 characters have been written: the counter has gone round once
C18_Witness ==
    SingleRow /\ run = 81 /\ grid.AC = 1 /\ gridOp.name = "write"


\* the store addresses of the layout write() applies
ValidAC(g) ==
    IF g._lines = 0 THEN g.AC \in 0..79
    ELSE g.AC \in (0..39) \cup (64..103)

\* C19: after any sequence of character writes in either direction, home and
\* clear, AC is a store address of the active layout; an advance into 40..63
\* goes to 64 and one beyond 103 goes to 0; every store of a write is inside
\* the 104-cell store.
C19_ValidAddress ==
    Begun =>
        /\ ValidAC(grid)
        /\ \A i \in Events("store") : grid.log[i].at < DDRAM_SIZE
        /\ (gridOp.name = "write" /\ grid._lines # 0) =>
            LET a == gridOp.found.AC + gridOp.found.increment
            IN /\ (a >= 40 /\ a <= 63) => grid.AC = 64
               /\ a > 103 => grid.AC = 0

\* a write at the end of the first segment has gone over the forbidden range
C19_Witness ==
    /\ gridOp.name = "write"
    /\ grid._lines = 2
    /\ gridOp.found.AC = 39
    /\ gridOp.found.increment = 1
    /\ grid.AC = 64


\* a run of scrollDisplayRight calls has just undone as many scrollDisplayLeft
\* calls, without the shift going past its limit on the way
TripClosed ==
    /\ gridOp.name = "scrollDisplayRight"
    /\ trip.closed # <<>>
    /\ ~trip.closed[1].crossed

Restored ==
    /\ grid.shiftChars = trip.closed[1].shiftChars
    /\ grid.currentDisplayChars = trip.closed[1].currentDisplayChars

\* C20: k calls of scrollDisplayLeft followed by k calls of scrollDisplayRight
\* leave shiftChars and the rendered viewport (the backing address and the
\* drawn character of every position) as they were before the first call,
\* provided the shift does not cross the wraparound limit on the way.
C20_ScrollRoundTrip == TripClosed => Restored

\* the same, for a viewport that was up to date when the first call found it
C20_CurrentRoundTrip == (TripClosed /\ trip.closed[1].current) => Restored


\* the positions a render pass of updateDisplay goes through
Visible(g) == 0..(IF g._lines > 0 THEN 31 ELSE 15)

\* the positions drawn by the last call
Drawn == {grid.log[i].at : i \in Events("draw")}

Showing(g, code) == {p \in Visible(g) : g.currentDisplayChars[p].chr = code}

GlyphRewritten == gridOp.name = "createChar" /\ gridOp.found.display_on

\* C21: when createChar rewrites the bitmap of custom character L (0..7)
\* while the display is on, the cells drawn are exactly the on-screen cells
\* that show code L: each of them is redrawn and no other cell is.
C21_RedrawsExactly ==
    GlyphRewritten => Drawn = Showing(gridOp.found, gridOp.a % 8)

\* the same on a display begun with 0 or with 2 lines, whose viewport was up
\* to date when createChar found it
C21_RedrawsCurrent ==
    (GlyphRewritten /\ grid._lines # 1 /\ Viewport(gridOp.found).current)
        => Drawn = Showing(gridOp.found, gridOp.a % 8)


\* the operations that are not scroll operations
NonScroll ==
    {"write", "setCursor", "home", "clear", "createChar", "display", "noDisplay",
     "leftToRight", "rightToLeft", "autoscroll", "noAutoscroll"}

\* virtual grid: a call that is not a scroll leaves shiftChars as it found it
C22_ShiftKept ==
    gridOp.name \in NonScroll => grid.shiftChars = gridOp.found.shiftChars

\* device-backed emulator: a call that is not a scroll leaves the window offset
C22_WindowKept ==
    lcdOp.name \in NonScroll =>
        _displayOffsetX = lcdOp.offX /\ _displayOffsetY = lcdOp.offY

\* C22: the viewport offset (shiftChars of the virtual grid, the window
\* offset of the device-backed emulator) is changed by scroll operations
\* only: write, setCursor, home, clear, createChar, display on/off and the
\* direction and autoscroll settings leave it as they found it.
C22_OffsetKept == C22_ShiftKept /\ C22_WindowKept

\* the part of C22 for the calls that never touch the offset in either class
C22_SettingsKeep ==
    /\ gridOp.name \in {"setCursor", "leftToRight", "rightToLeft"}
           => grid.shiftChars = gridOp.found.shiftChars
    /\ lcdOp.name \in NonScroll \ {"write"}
           => _displayOffsetX = lcdOp.offX /\ _displayOffsetY = lcdOp.offY


Scrolled == shiftOp.name \in {"scrollDisplayLeft", "scrollDisplayRight"}

\* C23: scrollDisplayLeft and scrollDisplayRight of the device-backed
\* emulator leave the character RAM alone: after either call every cell
\* holds the character and the attribute it held before the call.
C23_RamUnchanged == Scrolled => charDev.ram = shiftOp.found


\* the mirror cells stored and the device pixels put by the last call
MirrorStores == {i \in 1..Len(log) : log[i].k = "mem"}
DevicePuts == {i \in 1..Len(log) : log[i].k \in DevKinds}

PointLine ==
    /\ lastOp.name = "drawLine"
    /\ lastOp.a = lastOp.c
    /\ lastOp.b = lastOp.d
    /\ InScreen(lastOp.a, lastOp.b)
    /\ ~fault

\* what a call that plots the one pixel (lastOp.a, lastOp.b) leaves
OnePixel(immediate) ==
    /\ Cardinality(MirrorStores) = 1
    /\ \A i \in MirrorStores :
          log[i].x = lastOp.b * HQVGA_WIDTH + lastOp.a /\ log[i].n = 1
    /\ Cardinality(DevicePuts) = (IF immediate THEN 1 ELSE 0)
    /\ \A i \in DevicePuts :
          log[i].k = "put" /\ log[i].x = lastOp.a /\ log[i].y = lastOp.b /\ log[i].n = 1
    /\ Get(frameBuffer, lastOp.b * HQVGA_WIDTH + lastOp.a) = color565to332(lastOp.e)

\* C24: drawLine(x, y, x, y, color) with (x, y) inside the framebuffer plots
\* the pixel (x, y) and nothing else: one mirror cell is stored, and in
\* immediate mode one device pixel is put, in buffered mode none.
C24_SinglePoint ==
    [][(nOps' = nOps + 1 /\ PointLine') => OnePixel(~_buffered)']_vars

C24_Witness ==
    /\ PointLine
    /\ ~_buffered
    /\ OnePixel(TRUE)
    /\ lastOp.a = 159 /\ lastOp.b = 119
    /\ Get(device, 119 * HQVGA_WIDTH + 159) = color565to332(TFT_RED)


\* the rectangle of a fillRect call does not meet the framebuffer
MissesScreen(x, y, w, h) ==
    \/ w <= 0 \/ h <= 0
    \/ x >= HQVGA_WIDTH \/ y >= HQVGA_HEIGHT
    \/ x + w <= 0 \/ y + h <= 0

\* C25: fillRect with a rectangle that does not meet the framebuffer
\* (wholly left, right, above or below, or of no width or height) makes no
\* mirror store and no device write.
C25_OutsideNothing ==
    (lastOp.name = "fillRect" /\ MissesScreen(lastOp.a, lastOp.b, lastOp.c, lastOp.d)
        /\ ~fault)
        => log = <<>>

\* the same for the rectangles that start right of or below the framebuffer
C25_RightOrBelowNothing ==
    (lastOp.name = "fillRect" /\ ~fault
        /\ (lastOp.a >= HQVGA_WIDTH \/ lastOp.b >= HQVGA_HEIGHT))
        => log = <<>>

\* the first octant of the midpoint circle algorithm from (x, y) on: y steps
\* down when the midpoint (x + 1, y - 1/2) lies on or outside the circle
RECURSIVE MidpointArc(_, _, _)
MidpointArc(x, y, r) ==
    {<<x, y>>} \cup
    IF x < y
    THEN MidpointArc(x + 1,
                     IF 4 * (x + 1) * (x + 1) + (2 * y - 1) * (2 * y - 1) >= 4 * r * r
                     THEN y - 1 ELSE y,
                     r)
    ELSE {}

\* the framebuffer cells of the boundary of the circle, by eightfold symmetry
MidpointCells(cx, cy, r) ==
    {(cy + q[2]) * HQVGA_WIDTH + (cx + q[1]) :
        q \in UNION {{<<p[1], p[2]>>, <<-p[1], p[2]>>, <<p[1], -p[2]>>, <<-p[1], -p[2]>>,
                      <<p[2], p[1]>>, <<-p[2], p[1]>>, <<p[2], -p[1]>>, <<-p[2], -p[1]>>} :
                     p \in MidpointArc(0, r, r)}}

\* a drawCircle step taken right after fillScreen(color332(0, 0, 0))
CircleOnBlack ==
    /\ lastOp = Op1("fillScreen", color332(0, 0, 0))
    /\ nOps' = nOps + 1
    /\ lastOp'.name = "drawCircle"
    /\ ~fault'

\* the cells of the mirror that differ from the background after the step
OffBackground == {i \in DOMAIN frameBuffer'.px : frameBuffer'.px[i] # frameBuffer.base}

\* C26: after fillScreen(color332(0,0,0)) and then
\* drawCircle(80, 60, 30, color332(255,0,0)) the mirror cells that differ from
\* the background are exactly the boundary points of the midpoint circle
\* algorithm for centre (80, 60) and radius 30
C26_CircleOnBlack ==
    [][(CircleOnBlack /\ lastOp' = Op4("drawCircle", 80, 60, 30, color332(255, 0, 0)))
       => /\ frameBuffer'.base = frameBuffer.base
          /\ OffBackground = MidpointCells(80, 60, 30)]_vars

\* C26, for a colour given in 5-6-5 as the parameter type says: the cells
\* that differ from the background are the midpoint boundary set
C26_Circle565 ==
    [][(CircleOnBlack /\ lastOp'.d = TFT_RED)
       => /\ frameBuffer'.base = frameBuffer.base
          /\ OffBackground = MidpointCells(lastOp'.a, lastOp'.b, lastOp'.c)]_vars

\* the red circle of radius 30 drawn with the 5-6-5 colour is in the mirror
C26_Witness565 ==
    /\ lastOp = Op4("drawCircle", 80, 60, 30, TFT_RED)
    /\ ~fault
    /\ DOMAIN frameBuffer.px = MidpointCells(80, 60, 30)
    /\ Get(frameBuffer, 90 * HQVGA_WIDTH + 80) = color565to332(TFT_RED)

\* a character write entered at address 0 with right-to-left writing
WriteBackAtZero ==
    /\ gridOp.name = "write"
    /\ gridOp.found.AC = 0
    /\ gridOp.found.increment = -1

\* C27: with right-to-left writing a character write at address 0 wraps the
\* address counter to the last store address of the layout: 79 in the
\* single-row layout, 103 in the dual-row layout
C27_WrapsToLast ==
    WriteBackAtZero => grid.AC = IF gridOp.found._lines = 0 THEN 79 ELSE 103

\* C27, as the unsigned counter behaves: 0 - 1 is 4294967295, which is 15
\* modulo 80 and, being above 103, goes to 0 in the dual-row layout
C27_WrapsUnsigned ==
    WriteBackAtZero => grid.AC = IF gridOp.found._lines = 0 THEN 15 ELSE 0

C27_WitnessSingle == WriteBackAtZero /\ gridOp.found._lines = 0 /\ grid.AC = 15
C27_WitnessDual == WriteBackAtZero /\ gridOp.found._lines = 2 /\ grid.AC = 0

\* the calls that end in a render, and the shift that render maps with
Renders ==
    gridOp.name \in {"scrollDisplayLeft", "scrollDisplayRight", "noDisplay", "display", "write"}

RenderShift ==
    gridOp.found.shiftChars +
        (IF gridOp.name = "scrollDisplayLeft" THEN 1
         ELSE IF gridOp.name = "scrollDisplayRight" THEN -1
         ELSE IF gridOp.name = "write" /\ gridOp.found.scroll_on THEN gridOp.found.increment
         ELSE 0)

\* the positions a render pass goes over
RenderedCells(g) == 0..((IF g._lines > 0 THEN 32 ELSE 16) - 1)

\* (position + base_offset + shiftChars) mod capacity of the row segment
SegmentAddress(g, i, shift) ==
    IF g._lines = 0 THEN (i + shift) % 80
    ELSE IF i < 16 THEN (i + shift) % 40
    ELSE 64 + ((i - 16 + shift) % 40)

\* C28: for every visible cell position and every shiftChars reachable by
\* scrollDisplayLeft, scrollDisplayRight, write with autoscroll, noDisplay and
\* display, the backing address of the render is
\* (position + base_offset + shiftChars) mod capacity of the row segment, it
\* is an index of the 104-cell store, and the render reads no cell outside
\* the store
C28_RenderAddress ==
    Renders =>
        /\ \A i \in RenderedCells(grid) :
              /\ grid.currentDisplayChars[i].addr = SegmentAddress(grid, i, RenderShift)
              /\ grid.currentDisplayChars[i].addr < DDRAM_SIZE
        /\ ~ReadsAstray(grid)

\* C28, the part about the bounds of the store alone
C28_InsideStore ==
    Renders =>
        /\ \A i \in RenderedCells(grid) : grid.currentDisplayChars[i].addr < DDRAM_SIZE
        /\ ~ReadsAstray(grid)

\* C28 on two lines while the shift stays short of the limit of the render
C28_TwoLinesInRange ==
    (Renders /\ grid._lines = 2 /\ ~Beyond(grid, RenderShift)) =>
        /\ \A i \in RenderedCells(grid) :
              /\ grid.currentDisplayChars[i].addr = SegmentAddress(grid, i, RenderShift)
              /\ grid.currentDisplayChars[i].addr < DDRAM_SIZE
        /\ ~ReadsAstray(grid)

C28_WitnessTwoLines ==
    /\ gridOp.name = "write" /\ gridOp.found.scroll_on
    /\ grid._lines = 2 /\ grid.display_on /\ RenderShift = 39
    /\ grid.currentDisplayChars[16].addr = 103
    /\ grid.currentDisplayChars[17].addr = 64

\* a render on one 80-cell row reads ddram[255]
C28_WitnessAstray ==
    /\ gridOp.name = "scrollDisplayRight"
    /\ grid._lines = 0 /\ grid.display_on /\ RenderShift = -41
    /\ grid.currentDisplayChars[0].addr = 255
    /\ ReadsAstray(grid)

\* a call that is one render pass with the display on
RenderPass ==
    /\ grid' # grid
    /\ gridOp'.name \in {"display", "scrollDisplayLeft", "write"}
    /\ grid'.display_on

\* the putcharat calls of the pass
Redrawn == {n \in 1..Len(grid'.log) : grid'.log[n].k = "draw"}

\* after the pass the record of every position holds the store character
RecordsStore ==
    \A i \in RenderedCells(grid') :
        grid'.currentDisplayChars[i].chr = Load(grid', grid'.currentDisplayChars[i].addr)

\* C29: with the display on, a render pass redraws a cell only if the store
\* character at its backing address differs from the character last drawn at
\* that screen position, and after the pass the recorded last-drawn character
\* of every position is the store character at its backing address
C29_RedrawsOnlyChanged ==
    [][RenderPass =>
          /\ \A n \in Redrawn : grid'.log[n].v # screen[grid'.log[n].at]
          /\ RecordsStore]_vars

\* C29 against the record currentDisplayChars[i].chr instead of the screen
C29_RedrawsOnlyUnrecorded ==
    [][RenderPass =>
          /\ \A n \in Redrawn :
                grid'.log[n].v # grid.currentDisplayChars[grid'.log[n].at].chr
          /\ RecordsStore]_vars

\* C29 for the displays of no or two lines, where blankDisplay covers every
\* rendered position
C29_ChangedWhereBlanked ==
    [][(RenderPass /\ grid._lines # 1) =>
          /\ \A n \in Redrawn : grid'.log[n].v # screen[grid'.log[n].at]
          /\ RecordsStore]_vars

\* the second line of a two-line display is drawn again after noDisplay
C29_WitnessTwoLines ==
    /\ gridOp.name = "display" /\ gridOp.found.display_on = FALSE
    /\ grid._lines = 2
    /\ \E n \in 1..Len(grid.log) :
          grid.log[n].k = "draw" /\ grid.log[n].at = 16 /\ grid.log[n].v = 3
    /\ screen[16] = 3

\* one line: position 16 shows the glyph while the display is off
C29_WitnessOneLine ==
    /\ gridOp.name = "noDisplay"
    /\ grid._lines = 1
    /\ grid.currentDisplayChars[16].chr = BLANK
    /\ screen[16] = 3

\* a drawLine call between two points that differ in x and in y
Diagonal ==
    /\ lastOp.name = "drawLine"
    /\ lastOp.a # lastOp.c
    /\ lastOp.b # lastOp.d
    /\ ~fault

IsStore(e) == e.k = "mem"

\* the pixels stored in the mirror by the last call, in order, as <<x, y>>
Plotted ==
    [p \in {SelectSeq(log, IsStore)} |->
        [n \in 1..Len(p) |-> <<p[n].x % HQVGA_WIDTH, p[n].x \div HQVGA_WIDTH>>]]
    [SelectSeq(log, IsStore)]

\* 1 for x, 2 for y
MajorAxis == IF Abs(lastOp.d - lastOp.b) > Abs(lastOp.c - lastOp.a) THEN 2 ELSE 1
MinorAxis == 3 - MajorAxis

PointsOf(ps) == {ps[n] : n \in 1..Len(ps)}

\* C30: a diagonal drawLine between two points of the framebuffer plots
\* points that advance by exactly one per step along the major axis, from one
\* end point to the other, with a monotone minor coordinate; the set of points
\* is the one plotted with start and end swapped; from (0,0) to (4,2) y does
\* not decrease as x increases
C30_MajorAxisSteps ==
    Diagonal =>
        \E ps \in {Plotted} :
            /\ Len(ps) = Abs(lastOp.c - lastOp.a + (MajorAxis - 1) *
                             (lastOp.d - lastOp.b - lastOp.c + lastOp.a)) + 1
            /\ {<<lastOp.a, lastOp.b>>, <<lastOp.c, lastOp.d>>} = {ps[1], ps[Len(ps)]}
            /\ \E step \in {-1, 1} :
                  \A n \in 1..(Len(ps) - 1) : ps[n + 1][MajorAxis] = ps[n][MajorAxis] + step
            /\ \/ \A n \in 1..(Len(ps) - 1) : ps[n + 1][MinorAxis] >= ps[n][MinorAxis]
               \/ \A n \in 1..(Len(ps) - 1) : ps[n + 1][MinorAxis] <= ps[n][MinorAxis]
            /\ PointsOf(ps) = PointsOf(LinePoints(lastOp.c, lastOp.d, lastOp.a, lastOp.b))
            /\ (lastOp.a = 0 /\ lastOp.b = 0 /\ lastOp.c = 4 /\ lastOp.d = 2) =>
                  \A n, o \in 1..Len(ps) : ps[n][1] < ps[o][1] => ps[n][2] <= ps[o][2]

\* the line from (4,2) back to (0,0)
C30_Witness ==
    /\ Diagonal
    /\ lastOp.a = 4 /\ lastOp.b = 2 /\ lastOp.c = 0 /\ lastOp.d = 0
    /\ Plotted = << <<0, 0>>, <<1, 0>>, <<2, 1>>, <<3, 1>>, <<4, 2>> >>

\* a steep line with falling x
C30_WitnessSteep ==
    /\ Diagonal
    /\ lastOp.a = 1 /\ lastOp.b = 5 /\ lastOp.c = 3 /\ lastOp.d = 0
    /\ MajorAxis = 2
    /\ Len(Plotted) = 6

\* a fillTriangle call that came back
Filled == lastOp.name = "fillTriangle" /\ ~fault

\* the spans stored in the mirror by the last call, in order
Spans == SelectSeq(log, IsStore)

Lowest(S) == CHOOSE m \in S : \A n \in S : m <= n
Highest(S) == CHOOSE m \in S : \A n \in S : m >= n

\* C31: fillTriangle emits, for every scanline from the smallest to the
\* largest vertex y, in ascending order, exactly one horizontal span whose left
\* end is not right of its right end, and nothing on any other scanline; when
\* the three vertices share one y it is the single span from the smallest to
\* the largest vertex x; no division by zero occurs
C31_OneSpanPerScanline ==
    Filled =>
        \E v \in {lastOp.a} : \E sp \in {Spans} :
            LET top == Lowest({v[2], v[4], v[6]})
                bottom == Highest({v[2], v[4], v[6]})
            IN /\ \A n \in 1..Len(log) : log[n].k # "trap"
               /\ Len(sp) = bottom - top + 1
               /\ \A n \in 1..Len(sp) :
                     /\ (sp[n].x \div HQVGA_WIDTH) = top + n - 1
                     /\ sp[n].n >= 1
                     /\ (sp[n].x % HQVGA_WIDTH) + sp[n].n <= HQVGA_WIDTH
               /\ top = bottom =>
                     /\ (sp[1].x % HQVGA_WIDTH) = Lowest({v[1], v[3], v[5]})
                     /\ sp[1].n = Highest({v[1], v[3], v[5]}) - Lowest({v[1], v[3], v[5]}) + 1

\* C31, more: every span lies between the smallest and the largest vertex x
C31_SpansInsideHull ==
    Filled =>
        \E v \in {lastOp.a} : \E sp \in {Spans} :
            \A n \in 1..Len(sp) :
                /\ (sp[n].x % HQVGA_WIDTH) >= Lowest({v[1], v[3], v[5]})
                /\ (sp[n].x % HQVGA_WIDTH) + sp[n].n - 1 <= Highest({v[1], v[3], v[5]})

\* a triangle given bottom vertex first whose edges cross over
C31_Witness ==
    /\ Filled
    /\ lastOp.a = <<0, 5, 6, 3, 2, 1>>
    /\ Len(Spans) = 5
    /\ Spans[1].x = 1 * HQVGA_WIDTH + 2 /\ Spans[1].n = 1
    /\ (Spans[3].x % HQVGA_WIDTH) < 6
    /\ (Spans[3].x % HQVGA_WIDTH) + Spans[3].n - 1 = 6

\* three vertices on one scanline
C31_WitnessFlat ==
    /\ Filled
    /\ lastOp.a = <<4, 2, 1, 2, 7, 2>>
    /\ Spans = <<Mem(2 * HQVGA_WIDTH + 1, 7, color565to332(TFT_RED))>>

\* a drawCircle call that came back
Circled == lastOp.name = "drawCircle" /\ ~fault

\* the offsets <<dx, dy>> from the centre of the pixels stored by the last call
CircleOffsets ==
    {<<(log[n].x % HQVGA_WIDTH) - lastOp.a, (log[n].x \div HQVGA_WIDTH) - lastOp.b>> :
        n \in {i \in 1..Len(log) : log[i].k = "mem"}}

\* C32: for a circle inside the framebuffer the set of pixels plotted by
\* drawCircle is invariant under the eight reflections about the centre
\* (x -> -x, y -> -y, exchanging the x and y offsets), contains the four axis
\* points at distance r, and every plotted pixel has offsets (dx, dy) with
\* max(|dx|, |dy|) <= r
C32_EightfoldSymmetry ==
    Circled =>
        \E S \in {CircleOffsets} :
            /\ \A q \in S :
                  /\ <<-q[1], q[2]>> \in S
                  /\ <<q[1], -q[2]>> \in S
                  /\ <<q[2], q[1]>> \in S
                  /\ Abs(q[1]) <= lastOp.c /\ Abs(q[2]) <= lastOp.c
            /\ {<<0, lastOp.c>>, <<0, -lastOp.c>>, <<lastOp.c, 0>>, <<-lastOp.c, 0>>} \subseteq S

\* the circle of radius 9 near the far corner
C32_Witness ==
    /\ Circled
    /\ lastOp.a = 150 /\ lastOp.b = 110 /\ lastOp.c = 9
    /\ <<6, 7>> \in CircleOffsets /\ <<-7, -6>> \in CircleOffsets
    /\ Cardinality(CircleOffsets) > 8

\* C33: on a windowed emulator of at least one column and one row, after any
\* sequence of setCursor, write, home, clear, leftToRight, rightToLeft,
\* autoscroll and noAutoscroll the tracked cursor is inside the window:
\* 0 <= cursorCol < cols and 0 <= cursorRow < rows
C33_CursorInWindow ==
    (_cols >= 1 /\ _rows >= 1) =>
        /\ _cursorCol >= 0 /\ _cursorCol < _cols
        /\ _cursorRow >= 0 /\ _cursorRow < _rows

\* setCursor far outside the window has left the cursor in its last cell
C33_Witness ==
    /\ lcdOp.name = "setCursor" /\ lcdOp.a = 200 /\ lcdOp.b = 200
    /\ _cursorCol = _cols - 1
    /\ _cursorRow = _rows - 1

\* a character written in the last column without autoscroll
C33_WitnessLastColumn ==
    /\ lcdOp.name = "write" /\ lcdOp.a = 65 /\ lcdOp.ret = 1
    /\ lcdOp.col = _cols - 1 /\ _leftToRight /\ ~_autoscroll
    /\ _hdmi = "HDMI" /\ _displayOn
    /\ _cursorCol = _cols - 1

\* a scroll call that came back
ShiftReturns ==
    /\ shiftOp' # shiftOp \/ charDev' # charDev
    /\ ~shiftOp'.fault

WindowCol(a) == (a % TEXT_COLS) - _displayOffsetX

\* the cell a after a scroll by one column: from is the neighbour it takes
\* its content from, edge the window column that is filled
ShiftedCell(a, from, edge) ==
    IF ~InWindow(a) THEN charDev'.ram[a] = charDev.ram[a]
    ELSE IF WindowCol(a) = edge
    THEN charDev'.ram[a].ch = BLANK /\ charDev'.ram[a].attr \in CurrentAttrs
    ELSE charDev'.ram[a] = charDev.ram[a + from]

ShiftedAsClaimed ==
    /\ shiftOp'.name = "scrollDisplayLeft" => \A a \in RamCells : ShiftedCell(a, 1, _cols - 1)
    /\ shiftOp'.name = "scrollDisplayRight" => \A a \in RamCells : ShiftedCell(a, -1, 0)

\* C34: scrollDisplayLeft moves, in every row of the window, the character
\* and the attribute of window cell (c+1, r) into (c, r), puts a blank with the
\* current attribute in the last window column and changes no device cell
\* outside the window (columns offsetX..offsetX+cols-1, rows
\* offsetY..offsetY+rows-1); scrollDisplayRight is the mirror image and fills
\* the first window column
C34_ShiftsWindow == [][ShiftReturns => ShiftedAsClaimed]_vars

\* C34 while the window is where the constructor put it
C34_ShiftsWindowAtTop ==
    [][(ShiftReturns /\ _displayOffsetY = 0) => ShiftedAsClaimed]_vars

\* the two rows of the window rotated left and then right
C34_WitnessAtTop ==
    /\ shiftOp.name = "scrollDisplayRight" /\ ~shiftOp.fault
    /\ _displayOffsetY = 0
    /\ charDev.ram[0].ch = BLANK /\ charDev.ram[3].ch = 43
    /\ charDev.ram[1].ch = 41 /\ charDev.ram[2].ch = 42
    /\ charDev.ram[TEXT_COLS + 1].ch = 51
    /\ charDev.ram[4].ch = 44

\* the window is one row down and row 0 of the device has been shifted
C34_WitnessMoved ==
    /\ shiftOp.name = "scrollDisplayLeft" /\ ~shiftOp.fault
    /\ _displayOffsetY = 1
    /\ charDev.ram[0].ch = 41
    /\ charDev.ram[2 * TEXT_COLS].ch = 60

\* no transaction has reached the device and no call went through _hdmi
Untouched ==
    /\ lcdLog = <<>>
    /\ cursorReg.by = "reset"
    /\ charDev.ram = <<>>
    /\ ~shiftOp.fault

\* C35: a windowed emulator constructed with a null controller degrades
\* silently: every public operation (begin, clear, home, setCursor, write,
\* print, scrollDisplayLeft, scrollDisplayRight, the cursor and blink
\* switches, setColor) completes without dereferencing the missing
\* controller and issues no transaction
C35_NullIsSilent == _hdmi = "NULL" => Untouched

\* C35 for the calls other than the two scrolls
C35_NullIsSilentUnscrolled ==
    (_hdmi = "NULL" /\ shiftOp = NoShiftOp) => Untouched

\* setColor, print and the cursor switch have run without a controller
C35_WitnessSetColor ==
    _hdmi = "NULL" /\ lcdOp.name = "setColor" /\ _cursorOn /\ Untouched

C35_WitnessPrint ==
    _hdmi = "NULL" /\ lcdOp.name = "print" /\ lcdOp.a = 1 /\ lcdOp.ret = 0 /\ Untouched

\* scrollDisplayLeft called -> writeRegister through the null _hdmi
C35_WitnessScroll ==
    _hdmi = "NULL" /\ shiftOp.name = "scrollDisplayLeft" /\ shiftOp.fault

\* N characters c0..c(N-1) have been written from address 0 and the display
\* has been scrolled left k times: N is run, k is shiftChars
TextScrolled ==
    /\ Begun /\ run >= 0
    /\ gridOp.name \in {"write", "scrollDisplayLeft"}
    /\ ~grid.fault

RowCapacity(lines) == IF lines = 1 THEN 80 ELSE 40

\* position p of the first row shows c(p + k) wherever p + k < N
ShowsText ==
    \A p \in 0..15 : (p + grid.shiftChars < run) => screen[p] = 33 + p + grid.shiftChars

\* C36: the layout chosen by begin(cols, lines) is applied by write, by the
\* scroll limit and by the render mapping alike (flat 80 cells for a one-line
\* display, two 40-cell segments for a two-line display): after writing
\* c0..c(N-1) from address 0, N no larger than the row capacity, and scrolling
\* left k times, position p of the first row shows c(p+k) whenever p+k < N
C36_OneLayout ==
    (TextScrolled /\ grid._lines \in {1, 2} /\ run <= RowCapacity(grid._lines))
        => ShowsText

\* C36 for the two-line display
C36_TwoLines ==
    (TextScrolled /\ grid._lines = 2 /\ run <= 40) => ShowsText

\* C36 for the one-line display while the text fits the first 40-cell segment
C36_OneLineShortText ==
    (TextScrolled /\ grid._lines = 1 /\ run <= 40) => ShowsText

\* two lines, 40 characters, scrolled left 26 times: position 13 shows c39
C36_WitnessTwoLines ==
    /\ TextScrolled /\ grid._lines = 2 /\ run = 40 /\ grid.shiftChars = 26
    /\ screen[13] = 33 + 39
    /\ screen[0] = 33 + 26

\* one line, 41 characters, scrolled left 25 times: position 15 is backed by
\* address 40 while c40 has been stored at address 64
C36_WitnessOneLine ==
    /\ TextScrolled /\ grid._lines = 1 /\ run = 41 /\ grid.shiftChars = 25
    /\ grid.currentDisplayChars[15].addr = 40
    /\ grid.ddram[64] = 33 + 40
    /\ screen[15] = BLANK

\* a drawLine call that came back
LineDrawn == lastOp.name = "drawLine" /\ ~fault

\* the cells of the mirror stored to by the last call
StoredCells ==
    UNION {e.x .. (e.x + e.n - 1) : e \in {log[i] : i \in MirrorStores}}

CellOf(x, y) == y * HQVGA_WIDTH + x

LongerExtent ==
    IF Abs(lastOp.d - lastOp.b) > Abs(lastOp.c - lastOp.a)
    THEN Abs(lastOp.d - lastOp.b) ELSE Abs(lastOp.c - lastOp.a)

\* C37: drawLine between two points of the framebuffer plots both end points
\* and exactly max(|x1-x0|, |y1-y0|) + 1 distinct pixels, whether the line is
\* horizontal, vertical or diagonal
C37_LinePixelCount ==
    LineDrawn =>
        /\ CellOf(lastOp.a, lastOp.b) \in StoredCells
        /\ CellOf(lastOp.c, lastOp.d) \in StoredCells
        /\ Cardinality(StoredCells) = LongerExtent + 1

\* a diagonal line of slope 1/2 given from right to left: 5 pixels
C37_Witness ==
    /\ LineDrawn
    /\ lastOp.a = 4 /\ lastOp.b = 2 /\ lastOp.c = 0 /\ lastOp.d = 0
    /\ StoredCells = {CellOf(0, 0), CellOf(1, 0), CellOf(2, 1), CellOf(3, 1), CellOf(4, 2)}

\* a horizontal line given from right to left: 4 pixels in one store
C37_WitnessHorizontal ==
    /\ LineDrawn
    /\ lastOp.a = 6 /\ lastOp.b = 7 /\ lastOp.c = 3 /\ lastOp.d = 7
    /\ StoredCells = CellOf(3, 7) .. CellOf(6, 7)

\* a vertical line: 3 pixels
C37_WitnessVertical ==
    /\ LineDrawn
    /\ lastOp.a = 7 /\ lastOp.b = 3 /\ lastOp.c = 7 /\ lastOp.d = 5
    /\ StoredCells = {CellOf(7, 3), CellOf(7, 4), CellOf(7, 5)}

\* a step that is one call drawPixel(x, y, readPixel(x, y))
ReadBackStep == nOps' = nOps + 1 /\ lastOp'.name = "readBack"

\* C38: drawPixel(x, y, readPixel(x, y)) leaves the mirror cell with the value
\* it had: color565to332 undoes the 3-3-2 to 5-6-5 expansion of readPixel, so
\* inside the screen the call stores to the cell the byte that was there
C38_ReadBackKeepsCell ==
    [][ReadBackStep =>
          /\ frameBuffer' = frameBuffer
          /\ color565to332(lastOp'.c) = Get(frameBuffer, CellOf(lastOp'.a, lastOp'.b) % HQVGA_FRAMEBUFFER_SIZE)
                \/ ~InScreen(lastOp'.a, lastOp'.b)
          /\ InScreen(lastOp'.a, lastOp'.b) =>
                /\ Len(log') >= 1
                /\ log'[1] = Mem(CellOf(lastOp'.a, lastOp'.b), 1,
                                 Get(frameBuffer, CellOf(lastOp'.a, lastOp'.b)))]_vars

\* the byte 255 read as 0xE718 and stored back as 255
C38_Witness ==
    /\ lastOp.name = "readBack" /\ lastOp.a = 3 /\ lastOp.b = 2
    /\ lastOp.c = 59160
    /\ Get(frameBuffer, CellOf(3, 2)) = 255
    /\ log[1] = Mem(CellOf(3, 2), 1, 255)

\* the byte 109 (r = 3, g = 3, b = 1) read as 0x6308 and stored back
C38_WitnessMid ==
    /\ lastOp.name = "readBack" /\ lastOp.a = 3 /\ lastOp.b = 2
    /\ lastOp.c = 25352
    /\ Get(frameBuffer, CellOf(3, 2)) = 109
    /\ log[1] = Mem(CellOf(3, 2), 1, 109)

To332Of888 ==
    {"color332", "GFX_color332", "LVGL_toRGB332", "U8g2_toRGB332", "rgb888to332"}

\* the five 8-8-8 to 3-3-2 converters return one byte for the input held
SameByte888 ==
    \E v \in {color332(conv.r, conv.g, conv.b)} :
        /\ GFX_color332(conv.r, conv.g, conv.b) = v
        /\ LVGL_toRGB332(conv.r, conv.g, conv.b) = v
        /\ U8g2_toRGB332(conv.r, conv.g, conv.b) = v
        /\ rgb888to332(conv.r, conv.g, conv.b) = v
        /\ conv.out = v

\* C39: the duplicated colour converters agree: HQVGA_TFT::color332,
\* HQVGA_GFX::color332, HQVGA_LVGL::toRGB332, HQVGA_U8g2::toRGB332 and
\* rgb888to332 return the same byte for the same (r, g, b); rgb565to332
\* equals color565to332 on every 16-bit input; and
\* color565to332(color565(r, g, b)) = color332(r, g, b)
C39_ConvertersAgree ==
    /\ (conv.in = "888" /\ conv.fn \in To332Of888) => SameByte888
    /\ (conv.in = "565" /\ conv.fn \in {"color565to332", "rgb565to332"}) =>
          /\ conv.out = color565to332(conv.c)
          /\ conv.out = rgb565to332(conv.c)
    /\ (conv.in = "888" /\ conv.fn = "color565to332") =>
          /\ conv.fed = color565(conv.r, conv.g, conv.b)
          /\ conv.out = color332(conv.r, conv.g, conv.b)

\* (223, 31, 191): byte 0xC2 from HQVGA_LVGL::toRGB332
C39_Witness ==
    /\ conv.in = "888" /\ conv.fn = "LVGL_toRGB332"
    /\ conv.r = 223 /\ conv.g = 31 /\ conv.b = 191
    /\ conv.out = 194

\* the same input through color565 (0xD8F7) and color565to332
C39_WitnessVia565 ==
    /\ conv.in = "888" /\ conv.fn = "color565to332"
    /\ conv.r = 223 /\ conv.g = 31 /\ conv.b = 191
    /\ conv.fed = 55543
    /\ conv.out = 194

\* 0xFFFF through rgb565to332
C39_Witness565 ==
    /\ conv.in = "565" /\ conv.fn = "rgb565to332" /\ conv.c = 65535
    /\ conv.out = 255
====
